---- MODULE Spec2Model ----
(***************************************************************************)
(* Instagram-RSS-Bridge: the scheduled feed check (cron/check-feeds.ts),   *)
(* the per-(channel, source) ledger of sent links, the channel config in   *)
(* KV and the media sender (telegram-bot/handlers/send-media.ts); single   *)
(* calls of the fetchers (source-fetcher, instagram-client) and of          *)
(* checkAllFeeds over several channels as functions of what they meet;     *)
(* single calls of the formatter (utils/telegram-format.ts) and the admin's *)
(* /seed command.                                                           *)
(*                                                                         *)
(* One channel with one source is modelled.  An upstream item is a natural *)
(* number: its link is Link(x), items x and x + LinkSpace are two distinct *)
(* items that carry the same link.  Time is counted in minutes.            *)
(***************************************************************************)
EXTENDS Integers, Sequences, FiniteSets, TLC

VARIABLES
    clock,      \* Date.now(), in minutes
    kvConfig,   \* KV record telegram:channel:<id>:config (NoConfig when absent)
    cron,       \* the scheduler pass: [pc, now, config]
    admin,      \* the admin callback in flight: [pc, op, arg, config]
    upstream,   \* the upstream feed of the source, newest first
    ledger,     \* KV record telegram:sent:<channel>:<source>, a list of links
    delivered,  \* the messages posted to the channel so far: [item, via, api]
    run,        \* the locals of the last checkSource call at its return
    sendIn,     \* the arguments and environment of one sendMediaToChannel call
    sendOut,    \* its result
    cron2,      \* a second scheduler pass, started while the first one runs
    passIn,     \* the KV contents and failures one checkAllFeeds call meets
    passOut,    \* what that call did
    fetchIn,    \* the source and the upstream answers of one fetch call
    fetchOut,   \* its result
    fmtIn,      \* the arguments of one call of the formatter
    fmtOut,     \* its result
    lastSeen,   \* KV record telegram:lastseen:<channel>:<source>, an item id
    uidCache,   \* KV records uid:<name>, by key (NoUid when absent)
    uidCall,    \* the last resolveUserId call: its arguments and its result
    kvChannels, \* KV record telegram:channels, the list of the channel ids
    kvConfigs   \* KV records telegram:channel:<id>:config, by channel id

\* the single calls of the formatter, and the record /seed writes
resolver == <<uidCache, uidCall>>

\* the channel index and the configs it points to
registry == <<kvChannels, kvConfigs>>

fmtCalls == <<fmtIn, fmtOut, lastSeen, resolver, registry>>

\* the single calls of checkAllFeeds, of the fetchers and of the formatter
calls == <<passIn, passOut, fetchIn, fetchOut, fmtCalls>>

vars == <<clock, kvConfig, cron, admin, upstream, ledger, delivered, run,
          sendIn, sendOut, cron2, calls>>

(***************************************************************************)
(* Program constants (sizes in MB, times in minutes)                        *)
(***************************************************************************)
RSS_ITEMS_LIMIT == 12
BurstCap == 5
LedgerCap == 50
DefaultInterval == 30
MsPerMinute == 60000
URL_SIZE_LIMIT == 10
MAX_UPLOAD_SIZE == 50

(***************************************************************************)
(* Bounds of the model                                                     *)
(***************************************************************************)
LinkSpace == 100
CronPeriod == 15
ClockStart == 30
MaxClock == 75
MaxClockLong == 420
MaxClockCfg == 75
MaxUpstream == 6
MaxFeed == 52
MaxFaults == 2
MaxClockOverlap == 60
MaxTierItems == 13
NChannels == 2

\* the longest channel index
MaxIndex == 3
NSources == 2
MaxSetFields == 2
MaxClockSeed == 75
MaxClockTwin == 60
MaxTwinFeed == 3
NUsers == 2
MaxCount == 2
MaxClockDelay == 60
MaxClockInitial == 60

\* the text lengths of the items handed to the formatter
TextLengths == {0, 1, 200, 255, 256, 257, 1023, 1024, 1025, 4096, 4097}

(***************************************************************************)
(* Helpers                                                                 *)
(***************************************************************************)
Min(a, b) == IF a < b THEN a ELSE b

Max(a, b) == IF a < b THEN b ELSE a

Range(s) == {s[i] : i \in 1..Len(s)}

Reverse(s) == [i \in 1..Len(s) |-> s[Len(s) + 1 - i]]

Last(s, n) == SubSeq(s, Max(1, Len(s) - n + 1), Len(s))

First(s, n) == SubSeq(s, 1, Min(n, Len(s)))

\* the feed n, n-1, .., 1 (newest first)
Feed(n) == [i \in 1..n |-> n + 1 - i]

NoConfig == [absent |-> TRUE]

Channels == 1..NChannels

\* no channel has a config
NoConfigs == [c \in Channels |-> NoConfig]

(***************************************************************************)
(* Items                                                                   *)
(***************************************************************************)
Link(x) == x % LinkSpace

MediaTypeOf(x) == IF x % 3 = 0 THEN "video" ELSE "photo"

HasThumbnail(x) == x % 2 = 0

TextLength(x) == (x % 4) * 100

\* items 1 and 2 and the items of other ids that carry their links
TwinItems == {1, 2, 1 + LinkSpace, 2 + LinkSpace}

(***************************************************************************)
(* fetchForSource: the feed of an rss_url source is returned whole, the    *)
(* feed of an instagram source is cut to RSS_ITEMS_LIMIT items.            *)
(***************************************************************************)
fetchForSource(type, up) ==
    IF type = "rss_url" THEN up ELSE First(up, RSS_ITEMS_LIMIT)

filterItems(items, filter) ==
    IF filter = "all" THEN items
    ELSE SelectSeq(items, LAMBDA x : MediaTypeOf(x) = filter)

\* newItemsOf without the ledger lookup
newItemsOfNoDedup(items, sentLinks) == items

\* check-feeds.ts 118-121
newItemsOf(items, sentLinks) ==
    SelectSeq(items, LAMBDA x : Link(x) \notin Range(sentLinks))

\* postsToSendOf without the reverse
postsToSendOfNewestFirst(newItems) == First(newItems, BurstCap)

\* postsToSendOf without the cut to the burst cap
postsToSendOfUncapped(newItems) == Reverse(newItems)

\* check-feeds.ts 126-129
postsToSendOf(newItems) == First(Reverse(newItems), BurstCap)

\* capped keeping the oldest entries
cappedOldest(merged) == First(merged, LedgerCap)

\* check-feeds.ts 172-174
capped(merged) == Last(merged, LedgerCap)

\* sendFallbackMessage that never sends the thumbnail
sendFallbackTextOnly(x) ==
    [item |-> x, via |-> "fallback", api |-> "sendMessage",
     excerpt |-> Min(TextLength(x), 200),
     ellipsis |-> TextLength(x) > 200,
     link |-> Link(x)]

\* fallback-sender.ts: thumbnail with caption, or a text message; the caption
\* is the first 200 characters of the text, "..." when cut, and the link
sendFallbackMessage(x) ==
    [item |-> x, via |-> "fallback",
     api |-> IF HasThumbnail(x) THEN "sendPhoto" ELSE "sendMessage",
     excerpt |-> Min(TextLength(x), 200),
     ellipsis |-> TextLength(x) > 200,
     link |-> Link(x)]

mainMessage(x) ==
    [item |-> x, via |-> "main", api |-> MediaTypeOf(x),
     excerpt |-> TextLength(x), ellipsis |-> FALSE, link |-> Link(x)]

(***************************************************************************)
(* The outcome of one item of the batch, as the sender reports it:         *)
(*   ok       the main send succeeded                                      *)
(*   main429  the main send was rejected with error_code 429               *)
(*   fb_ok    the main send failed otherwise, the fallback succeeded       *)
(*   fb429    the main send failed otherwise, the fallback got 429         *)
(*   fail     the main send and the fallback failed, neither with 429      *)
(***************************************************************************)
Outcomes == {"ok", "main429", "fb_ok", "fb429", "fail"}

EmptyLoop == [sent |-> <<>>, attempts |-> <<>>, posted |-> <<>>, alerts |-> <<>>]

\* sendLoop recording the link of an item whose two sends failed
RECURSIVE sendLoopRecordsFailed(_, _, _, _)
sendLoopRecordsFailed(posts, out, i, acc) ==
    IF i > Len(posts) THEN acc
    ELSE LET x == posts[i]
             o == out[i]
             att == Append(acc.attempts, [item |-> x, outcome |-> o])
         IN CASE o = "ok" ->
                   sendLoopRecordsFailed(posts, out, i + 1,
                       [acc EXCEPT !.attempts = att,
                                   !.posted = Append(@, mainMessage(x)),
                                   !.sent = Append(@, Link(x))])
              [] o = "main429" -> [acc EXCEPT !.attempts = att]
              [] o = "fb_ok" ->
                   sendLoopRecordsFailed(posts, out, i + 1,
                       [acc EXCEPT !.attempts = att,
                                   !.posted = Append(@, sendFallbackMessage(x)),
                                   !.sent = Append(@, Link(x))])
              [] o = "fb429" -> [acc EXCEPT !.attempts = att]
              [] OTHER ->
                   sendLoopRecordsFailed(posts, out, i + 1,
                       [acc EXCEPT !.attempts = att,
                                   !.sent = Append(@, Link(x)),
                                   !.alerts = Append(@, "send_failed")])

\* sendLoop going on with the batch after a rate limit
RECURSIVE sendLoopNoBreak(_, _, _, _)
sendLoopNoBreak(posts, out, i, acc) ==
    IF i > Len(posts) THEN acc
    ELSE LET x == posts[i]
             o == out[i]
             att == Append(acc.attempts, [item |-> x, outcome |-> o])
         IN CASE o = "ok" ->
                   sendLoopNoBreak(posts, out, i + 1,
                       [acc EXCEPT !.attempts = att,
                                   !.posted = Append(@, mainMessage(x)),
                                   !.sent = Append(@, Link(x))])
              [] o = "fb_ok" ->
                   sendLoopNoBreak(posts, out, i + 1,
                       [acc EXCEPT !.attempts = att,
                                   !.posted = Append(@, sendFallbackMessage(x)),
                                   !.sent = Append(@, Link(x))])
              [] o = "fail" ->
                   sendLoopNoBreak(posts, out, i + 1,
                       [acc EXCEPT !.attempts = att,
                                   !.alerts = Append(@, "send_failed")])
              [] OTHER ->
                   sendLoopNoBreak(posts, out, i + 1,
                       [acc EXCEPT !.attempts = att])

\* sendLoop leaving the batch at an item whose two sends failed
RECURSIVE sendLoopStopsAtFailure(_, _, _, _)
sendLoopStopsAtFailure(posts, out, i, acc) ==
    IF i > Len(posts) THEN acc
    ELSE LET x == posts[i]
             o == out[i]
             att == Append(acc.attempts, [item |-> x, outcome |-> o])
         IN CASE o = "ok" ->
                   sendLoopStopsAtFailure(posts, out, i + 1,
                       [acc EXCEPT !.attempts = att,
                                   !.posted = Append(@, mainMessage(x)),
                                   !.sent = Append(@, Link(x))])
              [] o = "main429" -> [acc EXCEPT !.attempts = att]
              [] o = "fb_ok" ->
                   sendLoopStopsAtFailure(posts, out, i + 1,
                       [acc EXCEPT !.attempts = att,
                                   !.posted = Append(@, sendFallbackMessage(x)),
                                   !.sent = Append(@, Link(x))])
              [] o = "fb429" -> [acc EXCEPT !.attempts = att]
              [] OTHER ->
                   [acc EXCEPT !.attempts = att,
                               !.alerts = Append(@, "send_failed")]

\* check-feeds.ts 139-168: the send loop from position i on
RECURSIVE sendLoop(_, _, _, _)
sendLoop(posts, out, i, acc) ==
    IF i > Len(posts) THEN acc
    ELSE LET x == posts[i]
             o == out[i]
             att == Append(acc.attempts, [item |-> x, outcome |-> o])
         IN CASE o = "ok" ->
                   sendLoop(posts, out, i + 1,
                       [acc EXCEPT !.attempts = att,
                                   !.posted = Append(@, mainMessage(x)),
                                   !.sent = Append(@, Link(x))])
              [] o = "main429" -> [acc EXCEPT !.attempts = att]
              [] o = "fb_ok" ->
                   sendLoop(posts, out, i + 1,
                       [acc EXCEPT !.attempts = att,
                                   !.posted = Append(@, sendFallbackMessage(x)),
                                   !.sent = Append(@, Link(x))])
              [] o = "fb429" -> [acc EXCEPT !.attempts = att]
              [] OTHER ->
                   sendLoop(posts, out, i + 1,
                       [acc EXCEPT !.attempts = att,
                                   !.alerts = Append(@, "send_failed")])

\* what is kept of the call before the last one
NoBefore == [n |-> 0, fetched |-> <<>>, newCount |-> 0, sentCount |-> 0,
             ledgerCount |-> 0]

summary(r) == [n |-> r.n, fetched |-> r.fetched, newCount |-> Len(r.newItems),
               sentCount |-> Len(r.sent), ledgerCount |-> Len(r.sentLinks)]

NoRun == [n |-> 0, fetched |-> <<>>, sentLinks |-> <<>>, newItems |-> <<>>,
          posts |-> <<>>, attempts |-> <<>>, sent |-> <<>>, alerts |-> <<>>,
          before |-> NoBefore]

\* the end of checkSource without the alert for a batch that sent nothing
afterLoopSilent(sentLinks, loop) ==
    IF Len(loop.sent) > 0
    THEN [ledger |-> capped(sentLinks \o loop.sent), alerts |-> loop.alerts]
    ELSE [ledger |-> ledger, alerts |-> loop.alerts]

\* check-feeds.ts 170-181: the ledger is written when a link was recorded,
\* the admin is alerted when none was
afterLoop(sentLinks, loop) ==
    IF Len(loop.sent) > 0
    THEN [ledger |-> capped(sentLinks \o loop.sent), alerts |-> loop.alerts]
    ELSE [ledger |-> ledger, alerts |-> Append(loop.alerts, "all_failed")]

(***************************************************************************)
(* checkSource (check-feeds.ts 89-182) for a source src, with the fetch    *)
(* reporting up ("ok" or "down") and the sender reporting out[i] for the   *)
(* i-th item of the batch.  A fetch without items comes with errors when   *)
(* the upstream is down, and for an instagram source also when every       *)
(* instance returned an empty feed (send-media.ts 469-471).                *)
(***************************************************************************)
checkSource(src, up, out) ==
    LET fetched == IF up = "ok" THEN fetchForSource(src.type, upstream) ELSE <<>>
        hasErrors == up = "down" \/ src.type # "rss_url"
        items == filterItems(fetched, src.mediaFilter)
        sentLinks == ledger
        newItems == newItemsOf(items, sentLinks)
        posts == postsToSendOf(newItems)
        loop == sendLoop(posts, out, 1, EmptyLoop)
        end == afterLoop(sentLinks, loop)
        base == [NoRun EXCEPT !.n = IF run.n = 1 THEN 2 ELSE 1, !.fetched = fetched,
                              !.sentLinks = sentLinks, !.before = summary(run)]
    IN /\ UNCHANGED upstream
       /\ IF Len(fetched) = 0
          THEN /\ run' = [base EXCEPT !.alerts =
                              IF hasErrors THEN <<"fetch_failed">> ELSE <<>>]
               /\ UNCHANGED <<ledger, delivered>>
          ELSE IF Len(items) = 0 \/ Len(newItems) = 0
          THEN /\ run' = [base EXCEPT !.newItems = newItems]
               /\ UNCHANGED <<ledger, delivered>>
          ELSE /\ delivered' = delivered \o loop.posted
               /\ ledger' = end.ledger
               /\ run' = [base EXCEPT !.newItems = newItems,
                                      !.posts = posts,
                                      !.attempts = loop.attempts,
                                      !.sent = loop.sent,
                                      !.alerts = end.alerts]

(***************************************************************************)
(* sendMediaToChannel (send-media.ts 12-181).  The input names the message *)
(* and what the network answers: headSize is the content-length of the     *)
(* HEAD request in MB (0: unknown), tgUrl the platform's answer to a send   *)
(* by URL, tgBytes its answer to a send of text or uploaded bytes, dl the   *)
(* answer to the download request and dlSize the size of the asset in MB.   *)
(***************************************************************************)
MediaTypes == {"photo", "video", "audio", "mediagroup"}

SendInputs ==
    [type : MediaTypes \cup {"text"},
     hasUrl : BOOLEAN,
     friendly : BOOLEAN,
     headSize : {0, 5, 20},
     tgUrl : {"ok", "url_rejected", "429", "other"},
     tgBytes : {"ok", "429", "other"},
     dl : {"ok", "http_error"},
     dlSize : {5, 60}]

NoSend == [status |-> "pending", path |-> "none", urlTried |-> FALSE,
           downloaded |-> FALSE, error |-> "none"]

\* resolveMedia (send-media.ts 122-134): "url" or "download"
resolveMedia(in) ==
    IF in.friendly /\ in.headSize # 0 /\ in.headSize <= URL_SIZE_LIMIT
    THEN "url" ELSE "download"

\* downloadAsInputFile without the size tests
downloadAsInputFileNoCeiling(in) ==
    IF in.dl # "ok" THEN "http_error" ELSE "ok"

\* downloadAsInputFile (send-media.ts 163-181): "ok" or the error thrown
downloadAsInputFile(in) ==
    IF in.dl # "ok" THEN "http_error"
    ELSE IF in.dlSize > MAX_UPLOAD_SIZE THEN "too_large"
    ELSE "ok"

sendMediaToChannel(in) ==
    IF in.type = "text"
    THEN IF in.tgBytes = "ok"
         THEN [NoSend EXCEPT !.status = "ok", !.path = "text"]
         ELSE [NoSend EXCEPT !.status = "throw", !.path = "text",
                             !.error = in.tgBytes]
    ELSE IF ~in.hasUrl
    THEN IF in.type = "mediagroup"
         THEN [NoSend EXCEPT !.status = "ok"]
         ELSE [NoSend EXCEPT !.status = "throw", !.error = "url_missing"]
    ELSE IF resolveMedia(in) = "url"
    THEN IF in.tgUrl = "ok"
         THEN [NoSend EXCEPT !.status = "ok", !.path = "url", !.urlTried = TRUE]
         ELSE [NoSend EXCEPT !.status = "throw", !.path = "url",
                             !.urlTried = TRUE, !.error = in.tgUrl]
    ELSE IF downloadAsInputFile(in) # "ok"
    THEN [NoSend EXCEPT !.status = "throw", !.path = "download",
                        !.error = downloadAsInputFile(in)]
    ELSE IF in.tgBytes = "ok"
    THEN [NoSend EXCEPT !.status = "ok", !.path = "upload", !.downloaded = TRUE]
    ELSE [NoSend EXCEPT !.status = "throw", !.path = "upload",
                        !.downloaded = TRUE, !.error = in.tgBytes]

\* what checkSource does with the result of the main send (check-feeds.ts
\* 143-155): record the link, stop the batch, or send the fallback message
afterMainSend(out) ==
    IF out.status = "ok" THEN "record"
    ELSE IF out.error = "429" THEN "break"
    ELSE "fallback"

IdleSendIn == [type |-> "text", hasUrl |-> FALSE, friendly |-> FALSE,
               headSize |-> 0, tgUrl |-> "ok", tgBytes |-> "ok", dl |-> "ok",
               dlSize |-> 5]

(***************************************************************************)
(* The fetchers.  One call is given the answer of each upstream it may     *)
(* consult: ans[i] is the answer of tier i (fetchInstagramData) or of       *)
(* mirror instance i (source-fetcher), ans[DirectUrl] the answer of the     *)
(* feed URL itself.  An answer is                                           *)
(*   timeout   the request was aborted, or the network call threw          *)
(*   http403   a response with a status that is not 2xx                    *)
(*   html      a login redirect page, or the error page of a mirror        *)
(*   no_feed   a body that is not what the tier parses                     *)
(*   empty     a well-formed body with zero items                          *)
(*   items     a well-formed body with fetchIn.n items                     *)
(***************************************************************************)
FailureAnswers == {"timeout", "http403", "html", "no_feed"}

Answers == FailureAnswers \cup {"empty", "items"}

\* the items upstream i returns: n items, newest first
TierItems(i, n) == [j \in 1..n |-> 20 * i + (n + 1 - j)]

RSS_BRIDGE_INSTANCES == <<1, 2, 3>>

InstagramTiers == <<1, 2, 3, 4>>

DirectUrl == 4

NoFetch == [status |-> "pending", items |-> <<>>, errors |-> <<>>,
            tried |-> <<>>]

\* fetchFeed (feed-fetcher.ts 9-65): every failure is caught and returned as
\* zero items and one error
fetchFeed(i, a, n) ==
    CASE a = "items" -> [items |-> TierItems(i, n), errors |-> <<>>]
      [] a = "empty" -> [items |-> <<>>, errors |-> <<>>]
      [] a = "no_feed" -> [items |-> <<>>,
                           errors |-> <<[tier |-> "parse", at |-> i,
                                         message |-> a]>>]
      [] OTHER -> [items |-> <<>>,
                   errors |-> <<[tier |-> "fetch", at |-> i,
                                 message |-> a]>>]

\* the errors of a feed result, relabelled with the instance
relabel(errors, i) ==
    [k \in 1..Len(errors) |->
        [tier |-> "rss-bridge", at |-> i, message |-> errors[k].message]]

\* fetchFromRSSBridgeInstances (send-media.ts 439-473) from instance i on
RECURSIVE fetchFromRSSBridgeInstances(_, _, _, _)
fetchFromRSSBridgeInstances(ans, n, i, acc) ==
    IF i > Len(RSS_BRIDGE_INSTANCES)
    THEN [acc EXCEPT !.status = "returned",
                     !.errors = IF Len(acc.errors) > 0 THEN acc.errors
                                ELSE <<[tier |-> "rss-bridge", at |-> 0,
                                        message |-> "empty"]>>]
    ELSE LET inst == RSS_BRIDGE_INSTANCES[i]
             result == fetchFeed(inst, ans[inst], n)
             tried == Append(acc.tried, inst)
         IN IF Len(result.items) > 0
            THEN [acc EXCEPT !.status = "returned", !.tried = tried,
                             !.items = First(result.items, RSS_ITEMS_LIMIT),
                             !.errors = result.errors]
            ELSE fetchFromRSSBridgeInstances(ans, n, i + 1,
                     [acc EXCEPT !.tried = tried,
                                 !.errors = @ \o relabel(result.errors, inst)])

\* fetchRssUrl (send-media.ts 368-377): the other instances, from i on; the
\* result of the URL itself is returned when none of them has items
RECURSIVE failover(_, _, _, _, _)
failover(match, ans, n, i, acc) ==
    IF i > Len(RSS_BRIDGE_INSTANCES) THEN acc
    ELSE LET inst == RSS_BRIDGE_INSTANCES[i]
             altResult == fetchFeed(inst, ans[inst], n)
         IN IF inst = match THEN failover(match, ans, n, i + 1, acc)
            ELSE IF Len(altResult.items) > 0
            THEN [acc EXCEPT !.tried = Append(@, inst),
                             !.items = altResult.items,
                             !.errors = altResult.errors]
            ELSE failover(match, ans, n, i + 1,
                          [acc EXCEPT !.tried = Append(@, inst)])

\* fetchRssUrl (send-media.ts 352-384); match is the instance the URL belongs
\* to, 0 when it is not the URL of a known instance
fetchRssUrl(match, ans, n) ==
    LET result == fetchFeed(DirectUrl, ans[DirectUrl], n)
        first == [NoFetch EXCEPT !.status = "returned",
                                 !.tried = <<DirectUrl>>,
                                 !.items = result.items,
                                 !.errors = result.errors]
    IN IF Len(result.items) > 0 \/ match = 0 THEN first
       ELSE failover(match, ans, n, 1, first)

FetchSourceTypes == {"instagram_user", "instagram_tag", "rss_url",
                     "tiktok_user", "unknown"}

\* fetchForSource that raises on a source kind it does not know
fetchForSourceCallRaises(in) ==
    CASE in.type \in {"instagram_user", "instagram_tag"} ->
             fetchFromRSSBridgeInstances(in.ans, in.n, 1, NoFetch)
      [] in.type = "rss_url" -> fetchRssUrl(in.match, in.ans, in.n)
      [] in.type = "tiktok_user" ->
             LET r == fetchFeed(DirectUrl, in.ans[DirectUrl], in.n)
             IN [NoFetch EXCEPT !.status = "returned",
                                !.tried = <<DirectUrl>>,
                                !.items = r.items, !.errors = r.errors]
      [] OTHER -> [NoFetch EXCEPT !.status = "threw"]

\* fetchForSource (send-media.ts 324-346) with its result and the upstreams
\* it consulted
fetchForSourceCall(in) ==
    CASE in.type \in {"instagram_user", "instagram_tag"} ->
             fetchFromRSSBridgeInstances(in.ans, in.n, 1, NoFetch)
      [] in.type = "rss_url" -> fetchRssUrl(in.match, in.ans, in.n)
      [] in.type = "tiktok_user" ->
             LET r == fetchFeed(DirectUrl, in.ans[DirectUrl], in.n)
             IN [NoFetch EXCEPT !.status = "returned",
                                !.tried = <<DirectUrl>>,
                                !.items = r.items, !.errors = r.errors]
      [] OTHER -> [NoFetch EXCEPT !.status = "returned",
                       !.errors = <<[tier |-> "config", at |-> 0,
                                     message |-> "unknown"]>>]

\* checkSource (check-feeds.ts 91-100): the alert for a fetch without items,
\* one line for each error of the result
fetchFailedAlert(result) ==
    IF Len(result.items) = 0 /\ Len(result.errors) > 0
    THEN [sent |-> TRUE,
          lines |-> [k \in 1..Len(result.errors) |-> result.errors[k].at]]
    ELSE [sent |-> FALSE, lines |-> <<>>]

\* the tiers fetchInstagramData runs for a context (part_000 96, 116, 127)
tiersOf(context) == IF context = "username" THEN InstagramTiers ELSE <<2>>

\* fetchInstagramData giving up at a login redirect page
RECURSIVE fetchInstagramDataStopsAtHtml(_, _, _, _)
fetchInstagramDataStopsAtHtml(tiers, in, i, acc) ==
    IF i > Len(tiers) THEN [acc EXCEPT !.status = "returned"]
    ELSE LET t == tiers[i]
             a == in.ans[t]
             tried == Append(acc.tried, t)
         IN CASE a = "items" ->
                   [acc EXCEPT !.status = "returned", !.tried = tried,
                               !.items = TierItems(t, in.n)]
              [] a = "empty" ->
                   fetchInstagramDataStopsAtHtml(tiers, in, i + 1,
                       [acc EXCEPT !.tried = tried])
              [] a = "html" ->
                   [acc EXCEPT !.status = "returned", !.tried = tried,
                       !.errors = Append(@, [tier |-> "tier", at |-> t,
                                             message |-> a])]
              [] OTHER ->
                   fetchInstagramDataStopsAtHtml(tiers, in, i + 1,
                       [acc EXCEPT !.tried = tried,
                           !.errors = Append(@, [tier |-> "tier", at |-> t,
                                                 message |-> a])])

\* fetchInstagramData (part_000 90-142) from the i-th tier of the context on:
\* a tier that returns nodes ends the fetch, a tier that returns an error or
\* throws adds one error, a tier that returns no node adds none
RECURSIVE fetchInstagramData(_, _, _, _)
fetchInstagramData(tiers, in, i, acc) ==
    IF i > Len(tiers) THEN [acc EXCEPT !.status = "returned"]
    ELSE LET t == tiers[i]
             a == in.ans[t]
             tried == Append(acc.tried, t)
         IN CASE a = "items" ->
                   [acc EXCEPT !.status = "returned", !.tried = tried,
                               !.items = TierItems(t, in.n)]
              [] a = "empty" ->
                   fetchInstagramData(tiers, in, i + 1,
                       [acc EXCEPT !.tried = tried])
              [] OTHER ->
                   fetchInstagramData(tiers, in, i + 1,
                       [acc EXCEPT !.tried = tried,
                           !.errors = Append(@, [tier |-> "tier", at |-> t,
                                                 message |-> a])])

Contexts == {"username", "hashtag", "location"}

\* the calls of the fetchers: what is fetched and what every upstream answers.
\* Of the URL of an rss_url source, match is the first instance inst with
\* origin === inst || url.startsWith(inst) (send-media.ts 361; 0: none) and
\* origin the instance that is the origin of the URL (0: none): a URL whose
\* host only begins with the host of an instance has a match and origin 0.
FetchInputs ==
    {in \in [fn : {"fetchForSource", "fetchInstagramData"},
             type : FetchSourceTypes \cup Contexts,
             match : 0..Len(RSS_BRIDGE_INSTANCES),
             origin : 0..Len(RSS_BRIDGE_INSTANCES),
             ans : [1..4 -> Answers],
             n : {2, MaxTierItems}] :
        /\ in.fn = "fetchForSource" => in.type \in FetchSourceTypes
        /\ in.fn = "fetchInstagramData" => in.type \in Contexts
        /\ in.type # "rss_url" => in.match = 0
        /\ in.origin \in {0, in.match}
        /\ in.type \in {"unknown", "hashtag", "location"} => in.n = 2}

IdleFetchIn == [fn |-> "fetchForSource", type |-> "unknown", match |-> 0,
                origin |-> 0,
                ans |-> [i \in 1..4 |-> "empty"], n |-> 2]

(***************************************************************************)
(* One call of checkAllFeeds over NChannels channels of NSources sources,  *)
(* as a function of what it meets:                                          *)
(*   index     the channel index record: absent, corrupt (not JSON), empty *)
(*             or the list of the channels                                  *)
(*   chan[c]   the config record of channel c (absent, corrupt, disabled,  *)
(*             not_due, due; kv_error: the KV read throws; save_error: the *)
(*             config is due and the KV write throws) and what each of its *)
(*             sources does (disabled, ok, throw: checkSource throws)      *)
(*   alert     whether a message to the admin can be sent                  *)
(***************************************************************************)
IndexCases == {"absent", "corrupt", "empty", "list"}

ConfigCases == {"absent", "corrupt", "disabled", "not_due", "due", "kv_error",
                "save_error"}

SourceCases == {"disabled", "ok", "throw"}

QuietChannel == [config |-> "absent", src |-> [s \in 1..NSources |-> "ok"]]

PassInputs ==
    {in \in [index : IndexCases,
             chan : [1..NChannels ->
                        [config : ConfigCases,
                         src : [1..NSources -> SourceCases]]],
             alert : {"ok", "fail"}] :
        in.index # "list" =>
            /\ in.alert = "ok"
            /\ \A c \in 1..NChannels : in.chan[c] = QuietChannel}

IdlePassIn == [index |-> "absent", chan |-> [c \in 1..NChannels |-> QuietChannel],
               alert |-> "ok"]

NoPass == [status |-> "pending", channels |-> <<>>, sources |-> <<>>,
           saved |-> <<>>, alerts |-> <<>>]

\* alertAdmin without its try and catch
alertAdminUncaught(in) == IF in.alert = "ok" THEN "sent" ELSE "threw"

\* alertAdmin (check-feeds.ts 22-28): a failure to notify is logged
alertAdmin(in) == IF in.alert = "ok" THEN "sent" ELSE "logged"

\* the pass after an alert about kind at channel c
alerted(in, acc, kind, c) ==
    [acc EXCEPT !.alerts = Append(@, [kind |-> kind, channel |-> c,
                                      outcome |-> alertAdmin(in)]),
                !.status = IF alertAdmin(in) = "threw" THEN "threw" ELSE @]

\* checkChannel (check-feeds.ts 76-86): the sources of channel c from s on
RECURSIVE sourcesLoop(_, _, _, _)
sourcesLoop(in, c, s, acc) ==
    IF s > NSources \/ acc.status = "threw" THEN acc
    ELSE LET case == in.chan[c].src[s]
             called == [acc EXCEPT !.sources = Append(@, <<c, s>>)]
         IN CASE case = "disabled" -> sourcesLoop(in, c, s + 1, acc)
              [] case = "ok" -> sourcesLoop(in, c, s + 1, called)
              [] OTHER -> sourcesLoop(in, c, s + 1,
                              alerted(in, called, "source_error", c))

\* checkChannel (check-feeds.ts 63-87); status "threw" when it raises
checkChannel(in, c, acc) ==
    LET case == in.chan[c].config
        called == [acc EXCEPT !.channels = Append(@, c)]
    IN CASE case = "kv_error" -> [called EXCEPT !.status = "threw"]
         [] case \in {"absent", "corrupt", "disabled", "not_due"} -> called
         [] case = "save_error" -> [called EXCEPT !.status = "threw"]
         [] OTHER -> sourcesLoop(in, c, 1,
                                 [called EXCEPT !.saved = Append(@, c)])

\* checkAllFeeds (check-feeds.ts 51-60): the channels from c on
RECURSIVE channelsLoop(_, _, _)
channelsLoop(in, c, acc) ==
    IF c > NChannels \/ acc.status = "threw" THEN acc
    ELSE LET r == checkChannel(in, c, acc)
         IN IF r.status = "threw"
            THEN channelsLoop(in, c + 1,
                     alerted(in, [r EXCEPT !.status = "pending"],
                             "channel_error", c))
            ELSE channelsLoop(in, c + 1, r)

\* checkAllFeeds (check-feeds.ts 39-61)
checkAllFeeds(in) ==
    CASE in.index \in {"absent", "empty"} -> [NoPass EXCEPT !.status = "returned"]
      [] in.index = "corrupt" -> [NoPass EXCEPT !.status = "threw"]
      [] OTHER ->
           LET r == channelsLoop(in, 1, NoPass)
           IN [r EXCEPT !.status = IF @ = "threw" THEN @ ELSE "returned"]

(***************************************************************************)
(* Channel configuration                                                   *)
(***************************************************************************)
SourceTypes == {"rss_url", "instagram_user"}

NewSource(type) == [type |-> type, mediaFilter |-> "all", enabled |-> TRUE]

\* add-channel-flow.ts 36-42, subscription-commands.ts 82
NewConfig == [enabled |-> TRUE, checkIntervalMinutes |-> DefaultInterval,
              lastCheckTimestamp |-> 0, sources |-> <<>>, muted |-> FALSE]

IdleCron == [pc |-> "idle", now |-> 0, config |-> NoConfig]

IdleAdmin == [pc |-> "idle", op |-> "none", arg |-> 0, config |-> NoConfig]

\* isDue without the test of the channel switch
isDueIgnoresEnabled(config, now) ==
    /\ config # NoConfig
    /\ ~((now - config.lastCheckTimestamp) * MsPerMinute
            < config.checkIntervalMinutes * MsPerMinute)

\* check-feeds.ts 65-69
isDue(config, now) ==
    /\ config # NoConfig
    /\ config.enabled
    /\ ~((now - config.lastCheckTimestamp) * MsPerMinute
            < config.checkIntervalMinutes * MsPerMinute)

(***************************************************************************)
(* The scheduler pass                                                      *)
(***************************************************************************)
\* time passes between two passes (a pass reads the clock once, at its start)
Tick(max) ==
    /\ cron.pc = "idle"
    /\ clock + CronPeriod <= max
    /\ clock' = clock + CronPeriod
    /\ UNCHANGED <<kvConfig, cron, admin, upstream, ledger, delivered, run,
                   sendIn, sendOut, cron2, calls>>

\* time passes between two triggers of the timer once the pass of this
\* trigger has checked the channel if it was due
TickWhenChecked(max) ==
    /\ ~isDue(kvConfig, clock)
    /\ Tick(max)

\* checkAllFeeds (check-feeds.ts 39-61): now is taken once per pass
CronStart ==
    /\ cron.pc = "idle"
    /\ cron' = [pc |-> "getConfig", now |-> clock, config |-> NoConfig]
    /\ UNCHANGED <<clock, kvConfig, admin, upstream, ledger, delivered, run,
                   sendIn, sendOut, cron2, calls>>

\* checkChannel (check-feeds.ts 64-69): read the config, return when not due
CronGetConfig ==
    /\ cron.pc = "getConfig"
    /\ cron' = IF isDue(kvConfig, cron.now)
               THEN [cron EXCEPT !.pc = "save", !.config = kvConfig]
               ELSE [cron EXCEPT !.pc = "skipped", !.config = kvConfig]
    /\ UNCHANGED <<clock, kvConfig, admin, upstream, ledger, delivered, run,
                   sendIn, sendOut, cron2, calls>>

\* CronSave that writes the timestamp after the sources were checked (never,
\* as far as the checks of the sources can see)
CronSaveAfterSources ==
    /\ cron.pc = "save"
    /\ LET c == [cron.config EXCEPT !.lastCheckTimestamp = cron.now]
       IN /\ kvConfig' = kvConfig
          /\ cron' = [cron EXCEPT !.pc = "sources", !.config = c]
    /\ UNCHANGED <<clock, admin, upstream, ledger, delivered, run,
                   sendIn, sendOut, cron2, calls>>

\* checkChannel (check-feeds.ts 72-73): write the config read before, with
\* lastCheckTimestamp = now
CronSave ==
    /\ cron.pc = "save"
    /\ LET c == [cron.config EXCEPT !.lastCheckTimestamp = cron.now]
       IN /\ kvConfig' = c
          /\ cron' = [cron EXCEPT !.pc = "sources", !.config = c]
    /\ UNCHANGED <<clock, admin, upstream, ledger, delivered, run,
                   sendIn, sendOut, cron2, calls>>

\* checkChannel (check-feeds.ts 76-86) with an enabled source
CronCheckSource(up, out) ==
    /\ cron.pc = "sources"
    /\ Len(cron.config.sources) > 0
    /\ cron.config.sources[1].enabled
    /\ checkSource(cron.config.sources[1], up, out)
    /\ cron' = IdleCron
    /\ UNCHANGED <<clock, kvConfig, admin, sendIn, sendOut, cron2, calls>>

\* checkChannel (check-feeds.ts 76-77): no source, or the source is disabled
CronSkipSource ==
    /\ cron.pc = "sources"
    /\ IF Len(cron.config.sources) = 0 THEN TRUE
       ELSE ~cron.config.sources[1].enabled
    /\ cron' = [cron EXCEPT !.pc = "skipped"]
    /\ UNCHANGED <<clock, kvConfig, admin, upstream, ledger, delivered, run,
                   sendIn, sendOut, cron2, calls>>

\* checkAllFeeds (check-feeds.ts 51-61): checkChannel returned without a
\* check (65, 69, 77) and the pass ends
CronReturn ==
    /\ cron.pc = "skipped"
    /\ cron' = IdleCron
    /\ UNCHANGED <<clock, kvConfig, admin, upstream, ledger, delivered, run,
                   sendIn, sendOut, cron2, calls>>

AllOk == [i \in 1..BurstCap |-> "ok"]

\* the batch the next checkSource call would send
batchOf(src) ==
    postsToSendOf(newItemsOf(
        filterItems(fetchForSource(src.type, upstream), src.mediaFilter), ledger))

\* the outcome vectors with at most MaxFaults items that are not plainly sent
OutcomeVectors(n) ==
    {out \in [1..n -> Outcomes] :
        Cardinality({i \in 1..n : out[i] # "ok"}) <= MaxFaults}

CronCheckAny ==
    /\ cron.pc = "sources"
    /\ Len(cron.config.sources) > 0
    /\ \/ \E out \in OutcomeVectors(Len(batchOf(cron.config.sources[1]))) :
              CronCheckSource("ok", out)
       \/ CronCheckSource("down", <<>>)

CronCheckOk == CronCheckSource("ok", AllOk)

\* the upstream publishes one more item
Publish(max) ==
    /\ cron.pc = "idle"
    /\ Len(upstream) < max
    /\ upstream' = <<Len(upstream) + 1>> \o upstream
    /\ UNCHANGED <<clock, kvConfig, cron, admin, ledger, delivered, run,
                   sendIn, sendOut, cron2, calls>>

\* the upstream publishes an item whose id is new to the feed; its link may
\* be the link of an item the feed already has (guid || link, part_020
\* 119-120, 158-159: two entries with distinct guids and the same link)
PublishTwin(max) ==
    /\ cron.pc = "idle"
    /\ Len(upstream) < max
    /\ \E x \in TwinItems \ Range(upstream) : upstream' = <<x>> \o upstream
    /\ UNCHANGED <<clock, kvConfig, cron, admin, ledger, delivered, run,
                   sendIn, sendOut, cron2, calls>>

(***************************************************************************)
(* Admin callbacks and commands: each reads the config, changes one field  *)
(* of its copy and writes the copy back.                                   *)
(***************************************************************************)
AdminOps == {"ch_toggle", "interval", "src_toggle", "src_remove", "sub", "fd"}

IntervalChoices == {15, 30}

applyOp(config, op, arg) ==
    CASE op = "ch_toggle" -> [config EXCEPT !.enabled = ~@]
      [] op = "interval" -> [config EXCEPT !.checkIntervalMinutes = arg]
      [] op = "src_toggle" -> [config EXCEPT !.sources[1].enabled = ~@]
      [] op = "src_remove" -> [config EXCEPT !.sources = <<>>]
      [] op = "sub" -> [config EXCEPT !.sources = Append(@, NewSource("rss_url"))]
      [] OTHER -> [config EXCEPT !.muted = ~@]

\* the early returns of the handlers
opApplies(config, op) ==
    /\ config # NoConfig
    /\ op = "src_toggle" => Len(config.sources) > 0
    /\ op = "sub" => Len(config.sources) = 0

AdminRead(op, arg) ==
    /\ admin.pc = "idle"
    /\ admin' = IF opApplies(kvConfig, op)
                THEN [pc |-> "write", op |-> op, arg |-> arg, config |-> kvConfig]
                ELSE IdleAdmin
    /\ UNCHANGED <<clock, kvConfig, cron, upstream, ledger, delivered, run,
                   sendIn, sendOut, cron2, calls>>

AdminWrite ==
    /\ admin.pc = "write"
    /\ kvConfig' = applyOp(admin.config, admin.op, admin.arg)
    /\ admin' = IdleAdmin
    /\ UNCHANGED <<clock, cron, upstream, ledger, delivered, run,
                   sendIn, sendOut, cron2, calls>>

AdminBegin ==
    \E op \in AdminOps : \E arg \in IntervalChoices :
        /\ op # "interval" => arg = 15
        /\ AdminRead(op, arg)

(***************************************************************************)
(* The formatter (utils/telegram-format.ts).  Strings are modelled by     *)
(* their lengths; a layer of format settings is a function from the keys   *)
(* it carries to their values.                                             *)
(***************************************************************************)
FORMAT_SETTING_KEYS ==
    {"notification", "media", "author", "sourceFormat", "linkPreview",
     "lengthLimit"}

\* the option values of a setting, in the order of FORMAT_LABELS
FORMAT_LABELS(f) ==
    CASE f = "notification" -> <<"normal", "muted">>
      [] f = "media" -> <<"enable", "disable", "only_media">>
      [] f = "author" -> <<"enable", "disable">>
      [] f = "sourceFormat" ->
             <<"title_link", "link_only", "bare_url", "disable">>
      [] f = "linkPreview" -> <<"enable", "disable">>
      [] f = "lengthLimit" -> <<0, 256, 512, 1024>>

DEFAULT_FORMAT_SETTINGS ==
    [notification |-> "normal", media |-> "enable", author |-> "disable",
     sourceFormat |-> "disable", linkPreview |-> "disable", lengthLimit |-> 0]

\* the value of a key that is present but unset (undefined); -1 stands for
\* it in the numeric setting
Undefined(f) == IF f = "lengthLimit" THEN -1 ELSE "undefined"

\* {...a, ...b}: every own key of b is copied over a, whatever its value
spread(a, b) ==
    [f \in (DOMAIN a) \cup (DOMAIN b) |-> IF f \in DOMAIN b THEN b[f] ELSE a[f]]

\* an argument that is not passed spreads as no key at all
NoLayer == [f \in {} |-> 0]

\* resolveFormatSettings with the channel defaults spread last
resolveFormatSettingsChannelLast(channelDefaults, sourceOverrides) ==
    spread(spread(DEFAULT_FORMAT_SETTINGS, sourceOverrides), channelDefaults)

resolveFormatSettings(channelDefaults, sourceOverrides) ==
    spread(spread(DEFAULT_FORMAT_SETTINGS, channelDefaults), sourceOverrides)

\* the layers that carry the keys D: each key has an option value or is unset
LayersOn(D) ==
    {[f \in D |-> IF ix[f] > Len(FORMAT_LABELS(f)) THEN Undefined(f)
                  ELSE FORMAT_LABELS(f)[ix[f]]] :
        ix \in {jx \in [D -> 1..5] :
                  \A f \in D : jx[f] <= Len(FORMAT_LABELS(f)) + 1}}

Layers ==
    UNION {LayersOn(D) : D \in {E \in SUBSET FORMAT_SETTING_KEYS :
                                  Cardinality(E) <= MaxSetFields}}

\* the text of an item after escapeHtml and the expansion of mentions and
\* hashtags, the post link, the feed title and the author, as lengths
FeedItems ==
    [mediaType : {"photo", "video", "album", "none"},
     text : TextLengths,
     link : {40, 300},
     feedTitle : {0, 10},
     author : {0, 8}]

\* the settings a stored pair of layers resolves to: option values only
FormatSettings ==
    [notification : {"normal"}, media : {"enable", "disable", "only_media"},
     author : {"enable", "disable"},
     sourceFormat : {"title_link", "link_only", "bare_url", "disable"},
     linkPreview : {"disable"}, lengthLimit : {0, 256, 512, 1024}]

\* the length of the footer
buildFooter(item, settings) ==
    LET showAuthor == settings.author = "enable" /\ item.author > 0
        sourceName == IF item.feedTitle > 0 THEN item.feedTitle ELSE 6
    IN CASE settings.sourceFormat = "title_link" ->
                11 + item.link + 10 + sourceName + 4
                + (IF showAuthor THEN 3 + item.author ELSE 0)
         [] settings.sourceFormat = "link_only" ->
                11 + item.link + 2
                + (IF showAuthor THEN item.author + 3 ELSE 0)
                + sourceName + 4
         [] settings.sourceFormat = "bare_url" ->
                2 + (IF showAuthor THEN item.author + 1 ELSE 0) + item.link
         [] settings.sourceFormat = "disable" ->
                IF showAuthor THEN 2 + item.author ELSE 0

\* telegramLimitOf with the caption limit of media for every item
telegramLimitOfMediaOnly(item, settings) ==
    IF settings.media = "disable" THEN 4096 ELSE 1024

telegramLimitOf(item, settings) ==
    IF settings.media = "disable" \/ item.mediaType = "none"
    THEN 4096 ELSE 1024

effectiveLimitOf(item, settings) ==
    IF settings.lengthLimit > 0
    THEN Min(settings.lengthLimit, telegramLimitOf(item, settings))
    ELSE telegramLimitOf(item, settings)

NoLimit == -1

\* a caption: the characters kept of the text, the ellipsis, the footer
Caption(body, ellipsis, footer, limit) ==
    [body |-> body, ellipsis |-> ellipsis, footer |-> footer, limit |-> limit]

\* buildTelegramCaption that cuts the text at maxCaptionBody
buildTelegramCaptionOffByOne(item, settings) ==
    LET footer == buildFooter(item, settings)
        effectiveLimit == effectiveLimitOf(item, settings)
        maxCaptionBody == effectiveLimit - footer
    IN IF item.text > maxCaptionBody
       THEN Caption(Max(0, Min(maxCaptionBody, item.text)), TRUE, footer,
                    effectiveLimit)
       ELSE Caption(item.text, FALSE, footer, effectiveLimit)

\* substring(0, k) keeps no character when k is negative
buildTelegramCaption(item, settings) ==
    LET footer == buildFooter(item, settings)
        effectiveLimit == effectiveLimitOf(item, settings)
        maxCaptionBody == effectiveLimit - footer
    IN IF item.text > maxCaptionBody
       THEN Caption(Max(0, Min(maxCaptionBody - 1, item.text)), TRUE, footer,
                    effectiveLimit)
       ELSE Caption(item.text, FALSE, footer, effectiveLimit)

\* the number of media of an item (deriveMediaType, part_020 315-319)
mediaCount(item) ==
    CASE item.mediaType = "none" -> 0
      [] item.mediaType = "album" -> 2
      [] OTHER -> 1

formatFeedItem(item, settings) ==
    LET caption == IF settings.media = "only_media"
                   THEN Caption(0, FALSE, buildFooter(item, settings), NoLimit)
                   ELSE buildTelegramCaption(item, settings)
        type == CASE settings.media = "disable" -> "text"
                  [] item.mediaType \in {"photo", "video"} -> item.mediaType
                  [] item.mediaType = "album" ->
                         IF mediaCount(item) = 0 THEN "text" ELSE "mediagroup"
                  [] OTHER -> "text"
    IN [status |-> "done", type |-> type, caption |-> caption]

NoFmt == [status |-> "pending"]

IdleFmtIn == [fn |-> "none"]

ResolveInput(c, o) ==
    [fn |-> "resolveFormatSettings", channelDefaults |-> c,
     sourceOverrides |-> o]

FormatInputs ==
    {[fn |-> "formatFeedItem", item |-> i, settings |-> t] :
        i \in FeedItems, t \in FormatSettings}

NoSeen == 0

\* one call of sendMediaToChannel
DoSend ==
    /\ sendOut.status = "pending"
    /\ sendOut' = sendMediaToChannel(sendIn)
    /\ UNCHANGED <<clock, kvConfig, cron, admin, upstream, ledger, delivered,
                   run, sendIn, cron2, calls>>

\* one call of fetchForSource
DoFetchForSource ==
    /\ fetchOut.status = "pending"
    /\ fetchIn.fn = "fetchForSource"
    /\ fetchOut' = fetchForSourceCall(fetchIn)
    /\ UNCHANGED <<clock, kvConfig, cron, admin, upstream, ledger, delivered,
                   run, sendIn, sendOut, cron2, passIn, passOut, fetchIn,
                   fmtCalls>>

\* one call of fetchInstagramData
DoFetchInstagramData ==
    /\ fetchOut.status = "pending"
    /\ fetchIn.fn = "fetchInstagramData"
    /\ fetchOut' = fetchInstagramData(tiersOf(fetchIn.type), fetchIn, 1, NoFetch)
    /\ UNCHANGED <<clock, kvConfig, cron, admin, upstream, ledger, delivered,
                   run, sendIn, sendOut, cron2, passIn, passOut, fetchIn,
                   fmtCalls>>

\* one call of checkAllFeeds
DoPass ==
    /\ passOut.status = "pending"
    /\ passOut' = checkAllFeeds(passIn)
    /\ UNCHANGED <<clock, kvConfig, cron, admin, upstream, ledger, delivered,
                   run, sendIn, sendOut, cron2, passIn, fetchIn, fetchOut,
                   fmtCalls>>

\* one call of resolveFormatSettings
DoResolve ==
    /\ fmtOut.status = "pending"
    /\ fmtIn.fn = "resolveFormatSettings"
    /\ fmtOut' = [status |-> "done",
                  settings |-> resolveFormatSettings(fmtIn.channelDefaults,
                                                     fmtIn.sourceOverrides)]
    /\ UNCHANGED <<clock, kvConfig, cron, admin, upstream, ledger, delivered,
                   run, sendIn, sendOut, cron2, passIn, passOut, fetchIn,
                   fetchOut, fmtIn, lastSeen, resolver, registry>>

\* one call of formatFeedItem
DoFormat ==
    /\ fmtOut.status = "pending"
    /\ fmtIn.fn = "formatFeedItem"
    /\ fmtOut' = formatFeedItem(fmtIn.item, fmtIn.settings)
    /\ UNCHANGED <<clock, kvConfig, cron, admin, upstream, ledger, delivered,
                   run, sendIn, sendOut, cron2, passIn, passOut, fetchIn,
                   fetchOut, fmtIn, lastSeen, resolver, registry>>

\* /seed @channel [@source]: the first item of the fetched list is stored
\* under the lastseen key of each source to seed; nothing is sent
Seed ==
    /\ kvConfig # NoConfig
    /\ Len(kvConfig.sources) > 0
    /\ \E withRef \in BOOLEAN : \E up \in {"ok", "down"} :
         LET source == kvConfig.sources[1]
             sourcesToSeed == IF withRef \/ source.enabled
                              THEN <<source>> ELSE <<>>
             items == IF up = "ok"
                      THEN fetchForSource(source.type, upstream) ELSE <<>>
         IN lastSeen' = IF Len(sourcesToSeed) > 0 /\ Len(items) > 0
                        THEN items[1] ELSE lastSeen
    /\ UNCHANGED <<clock, kvConfig, cron, admin, upstream, ledger, delivered,
                   run, sendIn, sendOut, cron2, passIn, passOut, fetchIn,
                   fetchOut, fmtIn, fmtOut, resolver, registry>>

\* the numbers an admin may type after /delay @channel (parseInt of the
\* argument; NotANumber when it has no leading digits) and the digits the
\* data of an interval callback may carry (the keyboard of part_005 203-212
\* offers 15 to 720, the handler takes any \d+)
NotANumber == -1000

DelayArguments == {NotANumber, -5, 0, 4, 5, 30}

CallbackDigits == {0, 1, 15, 30}

\* /delay @channel <minutes> (subscription-commands.ts 149-171)
DelayCommand ==
    /\ \E minutes \in DelayArguments :
         /\ ~(minutes = NotANumber \/ minutes < 5)
         /\ kvConfig # NoConfig
         /\ kvConfig' = [kvConfig EXCEPT !.checkIntervalMinutes = minutes]
    /\ UNCHANGED <<clock, cron, admin, upstream, ledger, delivered, run,
                   sendIn, sendOut, cron2, calls>>

\* the callback interval:<channel>:<digits> (part_005 220-231)
IntervalCallback ==
    /\ \E minutes \in CallbackDigits :
         /\ kvConfig # NoConfig
         /\ kvConfig' = [kvConfig EXCEPT !.checkIntervalMinutes = minutes]
    /\ UNCHANGED <<clock, cron, admin, upstream, ledger, delivered, run,
                   sendIn, sendOut, cron2, calls>>

\* the messages fetchAndSendLatest posts for its items (fetch-and-send.ts
\* 45-59): the main message, the fallback message when the main send fails,
\* nothing when both fail; no failure ends the loop
RECURSIVE initialPosts(_, _, _)
initialPosts(items, out, i) ==
    IF i > Len(items) THEN <<>>
    ELSE (CASE out[i] = "ok" -> <<mainMessage(items[i])>>
            [] out[i] = "fb_ok" -> <<sendFallbackMessage(items[i])>>
            [] OTHER -> <<>>)
         \o initialPosts(items, out, i + 1)

\* fetchAndSendLatest (fetch-and-send.ts 15-81), called by /sub for the source
\* it has just stored: the count newest items are sent oldest first and the
\* id of the newest item is stored under the lastseen key
FetchAndSendLatest ==
    /\ kvConfig # NoConfig
    /\ Len(kvConfig.sources) > 0
    /\ lastSeen = NoSeen
    /\ delivered = <<>>
    /\ ledger = <<>>
    /\ \E count \in 1..MaxCount : \E up \in {"ok", "down"} :
       \E put \in {"ok", "throw"} :
         LET source == kvConfig.sources[1]
             result == IF up = "ok"
                       THEN fetchForSource(source.type, upstream) ELSE <<>>
             items == Reverse(First(result, count))
         IN IF Len(result) = 0
            THEN UNCHANGED <<delivered, lastSeen>>
            ELSE \E out \in [1..Len(items) -> {"ok", "fb_ok", "fail"}] :
                   /\ delivered' = delivered \o initialPosts(items, out, 1)
                   /\ lastSeen' = IF put = "ok" THEN result[1] ELSE lastSeen
    /\ UNCHANGED <<clock, kvConfig, cron, admin, upstream, ledger, run,
                   sendIn, sendOut, cron2, passIn, passOut, fetchIn, fetchOut,
                   fmtIn, fmtOut, resolver, registry>>

(***************************************************************************)
(* resolveUserId (services/user-resolver.ts 6-48).  A name is a user in a  *)
(* letter case, or a string of digits; the search answers with a list that *)
(* holds the user (in some letter case, with the id pk), with a list that  *)
(* does not, with no list, with an HTTP error or not at all.               *)
(***************************************************************************)
Names == [user : 1..NUsers, form : {"lower", "mixed", "digits"}]

NoUid == 0

Pks == {101, 102}

SearchAnswers == {"match", "not_found", "no_users", "http_error", "timeout"}

toLowerCase(name) ==
    IF name.form = "mixed" THEN [name EXCEPT !.form = "lower"] ELSE name

\* the cache key without the lowering of the name
cacheKeyAsTyped(name) == name

\* user-resolver.ts 11
cacheKey(name) == toLowerCase(name)

NoCache == [k \in Names |-> NoUid]

NoUidCall == [n |-> 0, name |-> [user |-> 1, form |-> "lower"],
              requested |-> FALSE, result |-> NoUid, cacheBefore |-> NoCache]

\* one call of resolveUserId: answer and pk are what the search returns, put
\* whether the KV write succeeds
ResolveUserId ==
    \E name \in Names : \E answer \in SearchAnswers : \E pk \in Pks :
    \E put \in {"ok", "throw"} :
        LET cached == uidCache[cacheKey(name)]
            call == [n |-> IF uidCall.n = 1 THEN 2 ELSE 1, name |-> name,
                     requested |-> FALSE, result |-> NoUid,
                     cacheBefore |-> uidCache]
        IN /\ IF name.form = "digits"
              THEN /\ uidCall' = [call EXCEPT !.result = name.user]
                   /\ UNCHANGED uidCache
              ELSE IF cached # NoUid
              THEN /\ uidCall' = [call EXCEPT !.result = cached]
                   /\ UNCHANGED uidCache
              ELSE IF answer = "match" /\ put = "ok"
              THEN /\ uidCache' = [uidCache EXCEPT ![cacheKey(name)] = pk]
                   /\ uidCall' = [call EXCEPT !.requested = TRUE,
                                              !.result = pk]
              ELSE /\ uidCall' = [call EXCEPT !.requested = TRUE]
                   /\ UNCHANGED uidCache
           /\ UNCHANGED <<clock, kvConfig, cron, admin, upstream, ledger,
                          delivered, run, sendIn, sendOut, cron2, passIn,
                          passOut, fetchIn, fetchOut, fmtIn, fmtOut, lastSeen,
                          registry>>

\* the entry of a key reaches its expirationTtl
ExpireUid ==
    /\ \E k \in Names :
         /\ uidCache[k] # NoUid
         /\ uidCache' = [uidCache EXCEPT ![k] = NoUid]
    /\ UNCHANGED <<clock, kvConfig, cron, admin, upstream, ledger, delivered,
                   run, sendIn, sendOut, cron2, passIn, passOut, fetchIn,
                   fetchOut, fmtIn, fmtOut, lastSeen, uidCall, registry>>

(***************************************************************************)
(* A second scheduler pass (part_012 40-42: every trigger of the timer     *)
(* calls checkAllFeeds, whether the pass before has ended or not).  It runs *)
(* the steps of the first pass on the same KV records.                      *)
(***************************************************************************)
\* time passes while the first pass is running
TickBusy(max) ==
    /\ cron.pc # "idle"
    /\ cron2.pc = "idle"
    /\ clock + CronPeriod <= max
    /\ clock' = clock + CronPeriod
    /\ UNCHANGED <<kvConfig, cron, admin, upstream, ledger, delivered, run,
                   sendIn, sendOut, cron2, calls>>

Cron2Start ==
    /\ cron2.pc = "idle"
    /\ cron.pc # "idle"
    /\ clock > cron.now
    /\ cron2' = [pc |-> "getConfig", now |-> clock, config |-> NoConfig]
    /\ UNCHANGED <<clock, kvConfig, cron, admin, upstream, ledger, delivered,
                   run, sendIn, sendOut, calls>>

Cron2GetConfig ==
    /\ cron2.pc = "getConfig"
    /\ cron2' = IF isDue(kvConfig, cron2.now)
                THEN [cron2 EXCEPT !.pc = "save", !.config = kvConfig]
                ELSE [cron2 EXCEPT !.pc = "skipped", !.config = kvConfig]
    /\ UNCHANGED <<clock, kvConfig, cron, admin, upstream, ledger, delivered,
                   run, sendIn, sendOut, calls>>

Cron2Save ==
    /\ cron2.pc = "save"
    /\ LET c == [cron2.config EXCEPT !.lastCheckTimestamp = cron2.now]
       IN /\ kvConfig' = c
          /\ cron2' = [cron2 EXCEPT !.pc = "sources", !.config = c]
    /\ UNCHANGED <<clock, cron, admin, upstream, ledger, delivered, run,
                   sendIn, sendOut, calls>>

Cron2CheckOk ==
    /\ cron2.pc = "sources"
    /\ Len(cron2.config.sources) > 0
    /\ cron2.config.sources[1].enabled
    /\ checkSource(cron2.config.sources[1], "ok", AllOk)
    /\ cron2' = IdleCron
    /\ UNCHANGED <<clock, kvConfig, cron, admin, sendIn, sendOut, calls>>

Cron2Return ==
    /\ cron2.pc = "skipped"
    /\ cron2' = IdleCron
    /\ UNCHANGED <<clock, kvConfig, cron, admin, upstream, ledger, delivered,
                   run, sendIn, sendOut, calls>>

(***************************************************************************)
(* Specifications                                                          *)
(***************************************************************************)
InitCommon ==
    /\ clock = ClockStart
    /\ cron = IdleCron
    /\ admin = IdleAdmin
    /\ ledger = <<>>
    /\ delivered = <<>>
    /\ run = NoRun
    /\ sendIn = IdleSendIn
    /\ sendOut = NoSend
    /\ cron2 = IdleCron
    /\ passIn = IdlePassIn
    /\ passOut = NoPass
    /\ fetchIn = IdleFetchIn
    /\ fetchOut = NoFetch
    /\ fmtIn = IdleFmtIn
    /\ fmtOut = NoFmt
    /\ lastSeen = NoSeen
    /\ uidCache = NoCache
    /\ uidCall = NoUidCall
    /\ kvChannels = <<>>
    /\ kvConfigs = NoConfigs

\* the scheduler and the delivery pipeline, with every outcome of the sender
Init ==
    /\ InitCommon
    /\ \E t \in SourceTypes : \E f \in {"all", "photo"} :
         kvConfig = [NewConfig EXCEPT !.sources =
                        <<[NewSource(t) EXCEPT !.mediaFilter = f]>>]
    /\ \E n \in 0..MaxUpstream : upstream = Feed(n)

Next ==
    \/ Tick(MaxClock)
    \/ CronStart
    \/ CronGetConfig
    \/ CronSave
    \/ CronCheckAny
    \/ CronReturn
    \/ Publish(MaxUpstream)

Spec == Init /\ [][Next]_vars

\* long feeds, every send succeeds
LongFeeds == {1, RSS_ITEMS_LIMIT + 1, LedgerCap} \cup (LedgerCap + 1)..MaxFeed

InitLong ==
    /\ InitCommon
    /\ \E t \in SourceTypes :
         kvConfig = [NewConfig EXCEPT !.sources = <<NewSource(t)>>]
    /\ \E n \in LongFeeds : upstream = Feed(n)

NextLong ==
    \/ Tick(MaxClockLong)
    \/ CronStart
    \/ CronGetConfig
    \/ CronSave
    \/ CronCheckOk
    \/ CronReturn

SpecLong == InitLong /\ [][NextLong]_vars

\* long feeds, every send succeeds, every trigger of the timer runs its pass
CronPass ==
    \/ CronStart
    \/ CronGetConfig
    \/ CronSave
    \/ CronCheckOk
    \/ CronReturn

NextLongFair ==
    \/ TickWhenChecked(MaxClockLong)
    \/ CronPass

\* time keeps passing, and the pass keeps taking steps: a step of the pass is
\* possible in every state (the timer starts a pass whenever none runs), so
\* that this is weak fairness of the pass
SpecLongFair ==
    /\ InitLong
    /\ [][NextLongFair]_vars
    /\ SF_vars(TickWhenChecked(MaxClockLong))
    /\ []<><<CronPass>>_vars

\* the scheduler interleaved with admin changes of the channel config
InitCfg ==
    /\ InitCommon
    /\ kvConfig \in {NoConfig,
                     [NewConfig EXCEPT !.sources = <<NewSource("rss_url")>>]}
    /\ \E n \in 0..1 : upstream = Feed(n)

NextCfg ==
    \/ Tick(MaxClockCfg)
    \/ CronStart
    \/ CronGetConfig
    \/ CronSave
    \/ CronCheckOk
    \/ CronSkipSource
    \/ AdminBegin
    \/ AdminWrite
    \/ CronReturn

SpecCfg == InitCfg /\ [][NextCfg]_vars

\* single calls of sendMediaToChannel

InitSend ==
    /\ clock = ClockStart
    /\ cron = IdleCron
    /\ admin = IdleAdmin
    /\ ledger = <<>>
    /\ delivered = <<>>
    /\ run = NoRun
    /\ sendOut = NoSend
    /\ kvConfig = NoConfig
    /\ upstream = <<>>
    /\ cron2 = IdleCron
    /\ passIn = IdlePassIn
    /\ passOut = NoPass
    /\ fetchIn = IdleFetchIn
    /\ fetchOut = NoFetch
    /\ fmtIn = IdleFmtIn
    /\ fmtOut = NoFmt
    /\ lastSeen = NoSeen
    /\ uidCache = NoCache
    /\ uidCall = NoUidCall
    /\ kvChannels = <<>>
    /\ kvConfigs = NoConfigs
    /\ sendIn \in SendInputs

SpecSend == InitSend /\ [][DoSend]_vars

\* two scheduler passes on the same channel
InitOverlap ==
    /\ InitCommon
    /\ \E i \in IntervalChoices :
         kvConfig = [NewConfig EXCEPT !.checkIntervalMinutes = i,
                                      !.sources = <<NewSource("rss_url")>>]
    /\ \E n \in 0..MaxUpstream : upstream = Feed(n)

NextOverlap ==
    \/ Tick(MaxClockOverlap)
    \/ TickBusy(MaxClockOverlap)
    \/ CronStart
    \/ CronGetConfig
    \/ CronSave
    \/ CronCheckOk
    \/ CronReturn
    \/ Cron2Start
    \/ Cron2GetConfig
    \/ Cron2Save
    \/ Cron2CheckOk
    \/ Cron2Return

SpecOverlap == InitOverlap /\ [][NextOverlap]_vars

InitCalls ==
    /\ clock = ClockStart
    /\ cron = IdleCron
    /\ admin = IdleAdmin
    /\ ledger = <<>>
    /\ delivered = <<>>
    /\ run = NoRun
    /\ kvConfig = NoConfig
    /\ upstream = <<>>
    /\ cron2 = IdleCron
    /\ sendIn = IdleSendIn
    /\ sendOut = NoSend
    /\ lastSeen = NoSeen
    /\ uidCache = NoCache
    /\ uidCall = NoUidCall
    /\ kvChannels = <<>>
    /\ kvConfigs = NoConfigs

\* single calls of fetchForSource and of fetchInstagramData
InitFetch ==
    /\ InitCalls
    /\ passIn = IdlePassIn
    /\ passOut = NoPass
    /\ fetchIn \in FetchInputs
    /\ fetchOut = NoFetch
    /\ fmtIn = IdleFmtIn
    /\ fmtOut = NoFmt

NextFetch ==
    \/ DoFetchForSource
    \/ DoFetchInstagramData

SpecFetch == InitFetch /\ [][NextFetch]_vars

\* single calls of checkAllFeeds
InitPass ==
    /\ InitCalls
    /\ passIn \in PassInputs
    /\ passOut = NoPass
    /\ fetchIn = IdleFetchIn
    /\ fetchOut = NoFetch
    /\ fmtIn = IdleFmtIn
    /\ fmtOut = NoFmt

SpecPass == InitPass /\ [][DoPass]_vars

\* the scheduler and the admin's /seed, every send succeeds
NextSeed ==
    \/ Tick(MaxClockSeed)
    \/ CronStart
    \/ CronGetConfig
    \/ CronSave
    \/ CronCheckOk
    \/ CronReturn
    \/ Seed
    \/ Publish(MaxUpstream)

SpecSeed == Init /\ [][NextSeed]_vars

\* feeds in which two items with distinct ids carry the same link, every send
\* succeeds
InitTwin ==
    /\ InitCommon
    /\ kvConfig = [NewConfig EXCEPT !.sources = <<NewSource("rss_url")>>]
    /\ upstream = <<>>

NextTwin ==
    \/ Tick(MaxClockTwin)
    \/ CronStart
    \/ CronGetConfig
    \/ CronSave
    \/ CronCheckOk
    \/ CronReturn
    \/ PublishTwin(MaxTwinFeed)

SpecTwin == InitTwin /\ [][NextTwin]_vars

\* calls of resolveUserId, one after the other, and the expiry of entries
InitUid ==
    /\ InitCalls
    /\ passIn = IdlePassIn
    /\ passOut = NoPass
    /\ fetchIn = IdleFetchIn
    /\ fetchOut = NoFetch
    /\ fmtIn = IdleFmtIn
    /\ fmtOut = NoFmt

NextUid ==
    \/ ResolveUserId
    \/ ExpireUid

SpecUid == InitUid /\ [][NextUid]_vars

\* the scheduler after a /sub that sends the latest posts of the new source,
\* every send of the scheduler succeeds
NextInitial ==
    \/ Tick(MaxClockInitial)
    \/ CronStart
    \/ CronGetConfig
    \/ CronSave
    \/ CronCheckOk
    \/ CronReturn
    \/ FetchAndSendLatest

SpecInitial == Init /\ [][NextInitial]_vars

\* the scheduler and the admin's changes of the check interval
NextDelay ==
    \/ Tick(MaxClockDelay)
    \/ CronStart
    \/ CronGetConfig
    \/ CronSave
    \/ CronCheckOk
    \/ CronReturn
    \/ DelayCommand
    \/ IntervalCallback

SpecDelay == InitCfg /\ [][NextDelay]_vars

\* single calls of resolveFormatSettings
InitResolve ==
    /\ InitCalls
    /\ passIn = IdlePassIn
    /\ passOut = NoPass
    /\ fetchIn = IdleFetchIn
    /\ fetchOut = NoFetch
    /\ \E c \in Layers : \E o \in Layers : fmtIn = ResolveInput(c, o)
    /\ fmtOut = NoFmt

SpecResolve == InitResolve /\ [][DoResolve]_vars

\* single calls of formatFeedItem
InitFormat ==
    /\ InitCalls
    /\ passIn = IdlePassIn
    /\ passOut = NoPass
    /\ fetchIn = IdleFetchIn
    /\ fetchOut = NoFetch
    /\ fmtIn \in FormatInputs
    /\ fmtOut = NoFmt

SpecFormat == InitFormat /\ [][DoFormat]_vars

(***************************************************************************)
(* The channel registry: the index telegram:channels and the config of     *)
(* each channel, of which the ids of its sources are kept.  The handlers    *)
(* that add to or remove from the index are /add (addChannelDirect), /sub   *)
(* with its auto-registration and the callback ch_remove_confirm.           *)
(***************************************************************************)
\* the config of a channel that was just registered
NewRegistration == [sources |-> {}]

\* the source an admin names after /sub @channel: 0 is a reference that
\* parseSourceRef rejects
SourceRefs == 0..NSources

\* add-channel-flow.ts 11-56, for an argument that resolves to channel c
addChannelDirect(c) ==
    LET channels == kvChannels
    IN IF c \in Range(channels)
       THEN UNCHANGED registry
       ELSE /\ kvChannels' = Append(channels, c)
            /\ kvConfigs' = [kvConfigs EXCEPT ![c] = NewRegistration]

\* /add @channel
AddChannel ==
    /\ Len(kvChannels) < MaxIndex
    /\ \E c \in Channels : addChannelDirect(c)
    /\ UNCHANGED <<clock, kvConfig, cron, admin, upstream, ledger, delivered,
                   run, sendIn, sendOut, cron2, passIn, passOut, fetchIn,
                   fetchOut, fmtIn, fmtOut, lastSeen, resolver>>

\* /sub @channel source without a post count (subscription-commands.ts
\* 73-115): a channel without a config is put on the index, the source
\* is parsed, and the config is saved when the source is new to it
SubCommand ==
    /\ Len(kvChannels) < MaxIndex
    /\ \E c \in Channels : \E parsed \in SourceRefs :
         LET stored == kvConfigs[c]
             config == IF stored = NoConfig THEN NewRegistration ELSE stored
         IN /\ kvChannels' = IF stored = NoConfig
                             THEN Append(kvChannels, c) ELSE kvChannels
            /\ kvConfigs' =
                   IF parsed = 0 \/ parsed \in config.sources
                   THEN kvConfigs
                   ELSE [kvConfigs EXCEPT
                            ![c] = [sources |-> config.sources \cup {parsed}]]
    /\ UNCHANGED <<clock, kvConfig, cron, admin, upstream, ledger, delivered,
                   run, sendIn, sendOut, cron2, passIn, passOut, fetchIn,
                   fetchOut, fmtIn, fmtOut, lastSeen, resolver>>

\* the callback ch_remove_confirm:<channel> (part_005 190-199)
RemoveChannel ==
    /\ \E channelId \in Channels :
         /\ kvChannels' = SelectSeq(kvChannels, LAMBDA id : id # channelId)
         /\ kvConfigs' = [kvConfigs EXCEPT ![channelId] = NoConfig]
    /\ UNCHANGED <<clock, kvConfig, cron, admin, upstream, ledger, delivered,
                   run, sendIn, sendOut, cron2, passIn, passOut, fetchIn,
                   fetchOut, fmtIn, fmtOut, lastSeen, resolver>>

\* the admin's commands on the registry, one after the other
InitRegistry ==
    /\ InitCalls
    /\ passIn = IdlePassIn
    /\ passOut = NoPass
    /\ fetchIn = IdleFetchIn
    /\ fetchOut = NoFetch
    /\ fmtIn = IdleFmtIn
    /\ fmtOut = NoFmt

NextRegistry ==
    \/ AddChannel
    \/ SubCommand
    \/ RemoveChannel

SpecRegistry == InitRegistry /\ [][NextRegistry]_vars

(***************************************************************************)
(* btchFetch (services/media-downloader.ts 28-57).  What a backend server  *)
(* does with the request:                                                   *)
(*   data      200 and a JSON object without an error                       *)
(*   5xx, 4xx  the status of the response                                   *)
(*   payload   200 and a string or an object holding an error               *)
(*   payload5  the same, the text of the error holding "returned 5"         *)
(*   timeout   the 30 s signal fires (TimeoutError)                         *)
(*   network   fetch rejects (a TypeError, no response)                     *)
(*   no_json   200 and a body that is not JSON (SyntaxError)                *)
(***************************************************************************)
BTCH_SERVERS == 1..4

BtchAnswers ==
    {"data", "5xx", "4xx", "payload", "payload5", "timeout", "network",
     "no_json"}

BtchInputs == [fn : {"btchFetch"}, ans : [BTCH_SERVERS -> BtchAnswers]]

\* new Error(`btch ${endpoint}: all servers failed`)
AllServersFailed == [at |-> 0, kind |-> "all servers failed"]

\* the test of the catch block (line 52): the name of the error is
\* TimeoutError or its message holds "returned 5"
retriedByCatch(a) == a \in {"timeout", "payload5"}

RECURSIVE btchFetch(_, _, _, _)
btchFetch(ans, i, lastError, tried) ==
    IF i > Cardinality(BTCH_SERVERS)
    THEN [status |-> "threw", items |-> <<>>, errors |-> <<lastError>>,
          tried |-> tried]
    ELSE LET a == ans[i]
             t == Append(tried, i)
             err == [at |-> i, kind |-> a]
         IN IF a = "5xx" THEN btchFetch(ans, i + 1, err, t)
            ELSE IF a = "data"
            THEN [status |-> "returned", items |-> <<i>>, errors |-> <<>>,
                  tried |-> t]
            ELSE IF retriedByCatch(a) THEN btchFetch(ans, i + 1, err, t)
            ELSE [status |-> "threw", items |-> <<>>, errors |-> <<err>>,
                  tried |-> t]

\* one call of btchFetch
DoBtchFetch ==
    /\ fetchOut.status = "pending"
    /\ fetchIn.fn = "btchFetch"
    /\ fetchOut' = btchFetch(fetchIn.ans, 1, AllServersFailed, <<>>)
    /\ UNCHANGED <<clock, kvConfig, cron, admin, upstream, ledger, delivered,
                   run, sendIn, sendOut, cron2, passIn, passOut, fetchIn,
                   fmtCalls>>

\* single calls of btchFetch
InitBtch ==
    /\ InitCalls
    /\ passIn = IdlePassIn
    /\ passOut = NoPass
    /\ fetchIn \in BtchInputs
    /\ fetchOut = NoFetch
    /\ fmtIn = IdleFmtIn
    /\ fmtOut = NoFmt

SpecBtch == InitBtch /\ [][DoBtchFetch]_vars

(***************************************************************************)
(* Properties                                                              *)
(***************************************************************************)
\* the source of the channel, as stored
StoredSource == kvConfig.sources[1]

\* the delivery candidates of the next check, from the stored state
Candidates ==
    Range(newItemsOf(filterItems(fetchForSource(StoredSource.type, upstream),
                                 StoredSource.mediaFilter), ledger))

\* the messages the last checkSource call posted to the channel
RunPosted == Last(delivered, Len(run.sent))

Delivered429 == {"main429", "fb429"}

AttemptsWith(os) == {i \in 1..Len(run.attempts) : run.attempts[i].outcome \in os}

\* the last call ran on the fetch result the call before it saw
SecondOfTwo ==
    /\ run.n # 0
    /\ run.before.n # 0
    /\ run.before.fetched = run.fetched

\* C1: with every send succeeding and no interrupted run, no upstream item is
\* posted to the channel twice, however many items the feed returns.
C1_AtMostOnce ==
    \A i, j \in 1..Len(delivered) :
        i # j => delivered[i].item # delivered[j].item

\* C2: a link is appended to the ledger only for an item whose main send or
\* fallback send succeeded in that call, and an item whose main send and
\* fallback both failed is not in the ledger and is a candidate of the next
\* check.
C2_RecordOnlyAfterSuccess ==
    /\ Len(RunPosted) = Len(run.sent)
    /\ \A i \in 1..Len(run.sent) : run.sent[i] = RunPosted[i].link
    /\ \A i \in 1..Len(run.sent) :
         \E k \in AttemptsWith({"ok", "fb_ok"}) :
             Link(run.attempts[k].item) = run.sent[i]
    /\ Range(ledger) \subseteq Range(run.sentLinks) \cup
         {Link(run.attempts[k].item) : k \in AttemptsWith({"ok", "fb_ok"})}
    /\ \A k \in AttemptsWith({"fail"}) :
         /\ Link(run.attempts[k].item) \notin Range(ledger)
         /\ run.attempts[k].item \in Candidates

C2_Witness ==
    /\ AttemptsWith({"fail"}) # {}
    /\ AttemptsWith({"fb_ok"}) # {}
    /\ AttemptsWith({"ok"}) # {}
    /\ Len(ledger) = 2

\* C3 as stated: the second of two calls on unchanged upstream data delivers
\* nothing.
C3_Original == SecondOfTwo => Len(run.sent) = 0

\* C3 as amended: the second of two calls on unchanged upstream data delivers
\* nothing when the first call had at most BurstCap candidates, delivered each
\* of them (main send or fallback) and the ledger with them stayed within
\* LedgerCap entries.
C3_Idempotent ==
    (/\ SecondOfTwo
     /\ run.before.newCount <= BurstCap
     /\ run.before.sentCount = run.before.newCount
     /\ run.before.ledgerCount + run.before.sentCount <= LedgerCap)
        => /\ Len(run.sent) = 0
           /\ Len(run.attempts) = 0

C3_Witness ==
    /\ SecondOfTwo
    /\ run.before.newCount = 3
    /\ run.before.sentCount = 3
    /\ Len(run.fetched) = 3
    /\ Len(delivered) = 3
    /\ Len(run.attempts) = 0

\* C4: the items of one batch are sent oldest first: the i-th attempt of a
\* call is the i-th oldest unseen item of the fetched list, and the messages
\* are posted in that order.
C4_OldestFirst ==
    /\ \A i \in 1..Len(run.attempts) :
         Cardinality({x \in Range(run.newItems) : x < run.attempts[i].item})
            = i - 1
    /\ \A i, j \in 1..Len(RunPosted) :
         i < j => RunPosted[i].item < RunPosted[j].item

C4_Witness ==
    /\ run.fetched = <<4, 3, 2, 1>>
    /\ run.sentLinks = <<1>>
    /\ [i \in 1..Len(RunPosted) |-> RunPosted[i].item] = <<2, 3, 4>>
    /\ [i \in 1..Len(delivered) |-> delivered[i].item] = <<1, 2, 3, 4>>

\* C5: the ledger never holds more than LedgerCap links, and once more than
\* LedgerCap sends succeeded it holds the links of the last LedgerCap of them,
\* in the order they were sent.
C5_LedgerCap ==
    /\ Len(ledger) <= LedgerCap
    /\ Len(delivered) > LedgerCap =>
         ledger = [i \in 1..LedgerCap |->
                      delivered[Len(delivered) - LedgerCap + i].link]

C5_Witness ==
    /\ Len(delivered) > LedgerCap + 1
    /\ Len(ledger) = LedgerCap
    /\ ledger[1] # 1

\* the position of the attempt that was rate limited, 0 when there is none
RateLimitedAt ==
    IF AttemptsWith(Delivered429) = {} THEN 0
    ELSE CHOOSE k \in AttemptsWith(Delivered429) : TRUE

\* C6 as stated: when item k of the batch is rate limited, items 1..k-1 are
\* in the ledger, nothing after k is attempted, and items k..n are not in the
\* ledger and are candidates of the next check.
C6_Original ==
    LET k == RateLimitedAt
    IN k # 0 =>
        /\ \A j \in 1..(k - 1) : Link(run.posts[j]) \in Range(ledger)
        /\ Len(run.attempts) = k
        /\ \A j \in k..Len(run.posts) :
             /\ Link(run.posts[j]) \notin Range(ledger)
             /\ run.posts[j] \in Candidates

\* C6 as amended: when item k of the batch is rate limited, the items of
\* 1..k-1 whose main send or fallback succeeded are in the ledger, nothing
\* after k is attempted, and items k..n are not in the ledger and are
\* candidates of the next check.
C6_RateLimit ==
    LET k == RateLimitedAt
    IN k # 0 =>
        /\ \A j \in 1..(k - 1) :
             run.attempts[j].outcome \in {"ok", "fb_ok"}
                => Link(run.posts[j]) \in Range(ledger)
        /\ Len(run.attempts) = k
        /\ \A j \in 1..k : run.attempts[j].item = run.posts[j]
        /\ Len(RunPosted) = Cardinality(AttemptsWith({"ok", "fb_ok"}))
        /\ \A j \in k..Len(run.posts) :
             /\ Link(run.posts[j]) \notin Range(ledger)
             /\ run.posts[j] \in Candidates

C6_Witness ==
    /\ Len(run.posts) = 5
    /\ RateLimitedAt = 3
    /\ run.attempts[1].outcome = "ok"
    /\ run.attempts[2].outcome = "ok"
    /\ ledger = <<Link(run.posts[1]), Link(run.posts[2])>>

\* C7: a rate-limit signal during a batch makes the call alert the admin,
\* also when earlier items of the batch were delivered.
C7_AlertOnRateLimit ==
    AttemptsWith(Delivered429) # {} => Len(run.alerts) > 0

\* C8: for an item whose main send failed without a rate limit and whose
\* fallback send succeeded, the fallback message (the thumbnail when there is
\* one, the text excerpt, the link) is posted and the link is in the ledger.
C8_FallbackRecorded ==
    \A k \in AttemptsWith({"fb_ok"}) :
        LET x == run.attempts[k].item
        IN /\ Link(x) \in Range(ledger)
           /\ \E i \in 1..Len(RunPosted) :
                /\ RunPosted[i].item = x
                /\ RunPosted[i].via = "fallback"
                /\ RunPosted[i].api = "sendPhoto" <=> HasThumbnail(x)
                /\ RunPosted[i].excerpt <= 200
                /\ RunPosted[i].excerpt <= TextLength(x)
                /\ RunPosted[i].link = Link(x)

C8_Witness ==
    /\ \E k \in AttemptsWith({"fb_ok"}) : HasThumbnail(run.attempts[k].item)
    /\ \E k \in AttemptsWith({"fb_ok"}) : ~HasThumbnail(run.attempts[k].item)
    /\ \E i \in 1..Len(RunPosted) :
         RunPosted[i].via = "fallback" /\ RunPosted[i].ellipsis

\* C9: every media URL is first passed to the platform, and when the platform
\* cannot fetch it the sender downloads the asset, uploads the bytes and the
\* call returns without an error.
C9_UrlFirstThenUpload ==
    (/\ sendOut.status # "pending"
     /\ sendIn.type \in MediaTypes
     /\ sendIn.hasUrl)
        => /\ sendOut.urlTried
           /\ (sendIn.tgUrl = "url_rejected" /\ sendIn.dl = "ok"
                 /\ sendIn.dlSize <= MAX_UPLOAD_SIZE /\ sendIn.tgBytes = "ok")
                => (sendOut.status = "ok" /\ sendOut.downloaded)

\* C10: the stored lastCheckTimestamp never decreases and changes only in
\* the step of the pass that saves a due check.
C10_LastCheckMonotonic ==
    [][(kvConfig # NoConfig /\ kvConfig' # NoConfig) =>
         /\ kvConfig'.lastCheckTimestamp >= kvConfig.lastCheckTimestamp
         /\ kvConfig'.lastCheckTimestamp # kvConfig.lastCheckTimestamp
               => (cron.pc = "save" /\ cron'.pc = "sources")]_vars

\* what checkChannel does not touch when it returns without a check
PipelineState == <<kvConfig, ledger, delivered, run>>

\* the config the pass is about to read is absent, switched off or not due
NothingDue ==
    IF kvConfig = NoConfig THEN TRUE
    ELSE \/ ~kvConfig.enabled
         \/ cron.now - kvConfig.lastCheckTimestamp < kvConfig.checkIntervalMinutes

\* the due config the pass holds has no enabled source
NoEnabledSource ==
    IF Len(cron.config.sources) = 0 THEN TRUE
    ELSE ~cron.config.sources[1].enabled

\* C11: a pass that finds no config, a disabled channel or a channel that is
\* not due returns without a fetch, a send or a KV write, and within a due
\* channel a disabled source causes no fetch, no send and no ledger write.
C11_NoEffectWhenSkipped ==
    [][/\ (cron.pc = "getConfig" /\ cron' # cron /\ NothingDue)
            => (cron'.pc = "skipped" /\ UNCHANGED PipelineState)
       /\ (cron.pc = "sources" /\ cron' # cron /\ NoEnabledSource)
            => (cron'.pc = "skipped" /\ UNCHANGED <<ledger, delivered, run>>)
       /\ (cron.pc = "skipped" /\ cron' # cron)
            => (cron'.pc = "idle" /\ UNCHANGED PipelineState)]_vars

\* a disabled channel with a due timestamp and an unseen item was skipped
C11_Witness ==
    /\ cron.pc = "skipped"
    /\ cron.config # NoConfig
    /\ cron.config = kvConfig
    /\ ~cron.config.enabled
    /\ cron.now - cron.config.lastCheckTimestamp >= cron.config.checkIntervalMinutes
    /\ Len(cron.config.sources) > 0
    /\ Len(upstream) > 0
    /\ Len(delivered) = 0
    /\ run.n = 0

\* C12: the config with lastCheckTimestamp = now is in KV when the first
\* source fetch of a due channel starts, and it still is when the check of
\* the source has ended, whatever the fetch and the sends did.
C12_SavedBeforeFetch ==
    [][cron.pc = "sources" =>
         /\ kvConfig.lastCheckTimestamp = cron.now
         /\ kvConfig'.lastCheckTimestamp = cron.now]_vars

\* a check whose fetch failed has ended and the timestamp is the pass's now
C12_Witness ==
    /\ cron.pc = "idle"
    /\ run.alerts = <<"fetch_failed">>
    /\ run.before.n # 0
    /\ kvConfig.lastCheckTimestamp = clock
    /\ clock > ClockStart

\* C13: two passes that overlap never both run the fetch-and-send body of
\* the channel within one check interval.
C13_OneBodyPerInterval ==
    (cron.pc = "sources" /\ cron2.pc = "sources")
        => cron2.now - cron.now >= cron.config.checkIntervalMinutes

\* the sources of channel c the pass has to check
EnabledSources(c) == {s \in 1..NSources : passIn.chan[c].src[s] # "disabled"}

\* C14: in a pass over the channels of the index every channel is checked,
\* whatever exception the check of another channel raised, and every enabled
\* source of a due channel is checked, whatever exception the check of
\* another source raised, also when the alert to the admin cannot be sent.
C14_ErrorIsolation ==
    (passOut.status # "pending" /\ passIn.index = "list") =>
        /\ passOut.channels = [c \in 1..NChannels |-> c]
        /\ \A c \in 1..NChannels :
             passIn.chan[c].config = "due" =>
                 \A s \in EnabledSources(c) : <<c, s>> \in Range(passOut.sources)
        /\ \A c \in 1..NChannels :
             passIn.chan[c].config \in {"kv_error", "save_error"} =>
                 \E k \in 1..Len(passOut.alerts) :
                     /\ passOut.alerts[k].kind = "channel_error"
                     /\ passOut.alerts[k].channel = c

\* the first channel raises, a source of the second raises, the alerts fail,
\* and the source after it was checked
C14_Witness ==
    /\ passOut.status = "returned"
    /\ passIn.index = "list"
    /\ passIn.alert = "fail"
    /\ passIn.chan[1].config = "kv_error"
    /\ passIn.chan[NChannels].config = "due"
    /\ passIn.chan[NChannels].src[1] = "throw"
    /\ passIn.chan[NChannels].src[NSources] = "ok"
    /\ <<NChannels, NSources>> \in Range(passOut.sources)
    /\ Len(passOut.alerts) = 2

\* C15: a call of checkAllFeeds never ends by raising, whatever the KV
\* records hold and whatever fails.
C15_PassNeverThrows == passOut.status # "threw"

\* the upstreams the call consulted, in the order it did
Tried == fetchOut.tried

\* the upstreams the call may consult, in their priority order
TierOrder ==
    CASE fetchIn.fn = "fetchInstagramData" ->
             IF fetchIn.type = "username" THEN <<1, 2, 3, 4>> ELSE <<2>>
      [] fetchIn.type \in {"instagram_user", "instagram_tag"} -> <<1, 2, 3>>
      [] fetchIn.type = "tiktok_user" -> <<DirectUrl>>
      [] fetchIn.type = "rss_url" ->
             IF fetchIn.match = 0 THEN <<DirectUrl>>
             ELSE <<DirectUrl>> \o SelectSeq(<<1, 2, 3>>,
                                             LAMBDA i : i # fetchIn.match)
      [] OTHER -> <<>>

FailedTiers(tiers) ==
    SelectSeq(tiers, LAMBDA t : fetchIn.ans[t] \in FailureAnswers)

\* C16: a fetch call returns and never raises, for every source kind and
\* every answer of the upstreams, and when every upstream it consulted failed
\* the result has zero items and at least one error.
C16_FetchNeverThrows ==
    fetchOut.status # "pending" =>
        /\ fetchOut.status = "returned"
        /\ (\A t \in Range(Tried) : fetchIn.ans[t] \in FailureAnswers)
              => (Len(fetchOut.items) = 0 /\ Len(fetchOut.errors) > 0)

\* a source whose three instances failed in three ways
C16_Witness ==
    /\ fetchOut.status = "returned"
    /\ Len(fetchOut.items) = 0
    /\ fetchIn.type = "instagram_user"
    /\ fetchIn.ans[1] = "timeout"
    /\ fetchIn.ans[2] = "http403"
    /\ fetchIn.ans[3] = "no_feed"
    /\ Len(fetchOut.errors) = 3

\* C17: a fetch result with items holds exactly the items of the tier that
\* answered and one error for each tier that failed before it.
C17_FailoverResult ==
    (fetchOut.status = "returned" /\ Len(fetchOut.items) > 0) =>
        LET last == Tried[Len(Tried)]
            earlier == FailedTiers(SubSeq(Tried, 1, Len(Tried) - 1))
        IN /\ fetchOut.items = TierItems(last, fetchIn.n)
           /\ Len(fetchOut.errors) = Len(earlier)
           /\ \A k \in 1..Len(earlier) : fetchOut.errors[k].at = earlier[k]

\* C18: the tiers (or instances) of a fetch are consulted in their priority
\* order, each after the one before it ended without an item; none is
\* consulted after one returned an item, and the fetch ends before the last
\* tier only because a tier returned an item.
C18_TiersInOrder ==
    fetchOut.status # "pending" =>
        /\ Len(Tried) <= Len(TierOrder)
        /\ Tried = SubSeq(TierOrder, 1, Len(Tried))
        /\ \A k \in 1..(Len(Tried) - 1) : fetchIn.ans[Tried[k]] # "items"
        /\ Len(Tried) < Len(TierOrder) =>
              /\ Len(Tried) > 0
              /\ fetchIn.ans[Tried[Len(Tried)]] = "items"
        /\ Len(fetchOut.items) = 0 => Len(Tried) = Len(TierOrder)

\* a login redirect page at tier 1 and a timeout at tier 2, items at tier 3
C18_Witness ==
    /\ fetchOut.status = "returned"
    /\ fetchIn.fn = "fetchInstagramData"
    /\ fetchIn.ans[1] = "html"
    /\ fetchIn.ans[2] = "timeout"
    /\ fetchIn.ans[3] = "items"
    /\ Tried = <<1, 2, 3>>
    /\ fetchOut.items = TierItems(3, fetchIn.n)

\* C19: when the fetch of a source ends without an item, one alert is sent
\* to the admin and it lists the error of every upstream that failed.
C19_ExhaustedFetchAlert ==
    (/\ fetchIn.fn = "fetchForSource"
     /\ fetchOut.status = "returned"
     /\ Len(fetchOut.items) = 0)
        => /\ fetchFailedAlert(fetchOut).sent
           /\ Range(FailedTiers(Tried))
                 \subseteq Range(fetchFailedAlert(fetchOut).lines)

\* C20: when a batch has items and the main send and the fallback failed for
\* each of them, the ledger is what the call read and one alert that all
\* posts failed is sent.
C20_AllFailedAlert ==
    (/\ Len(run.posts) > 0
     /\ AttemptsWith({"fail"}) = 1..Len(run.posts))
        => /\ ledger = run.sentLinks
           /\ Len(RunPosted) = 0
           /\ Cardinality({k \in 1..Len(run.alerts) :
                              run.alerts[k] = "all_failed"}) = 1

\* two items, after an earlier delivery, failed both ways
C20_Witness ==
    /\ Len(run.posts) = 2
    /\ AttemptsWith({"fail"}) = {1, 2}
    /\ Len(ledger) > 0
    /\ ledger = run.sentLinks
    /\ run.alerts = <<"send_failed", "send_failed", "all_failed">>

\* the layer carries the key with one of its option values
Sets(layer, f) ==
    f \in DOMAIN layer /\ layer[f] \in Range(FORMAT_LABELS(f))

\* a layer as the admin callbacks store it: every key it carries is set
StoredLayer(layer) == \A f \in DOMAIN layer : Sets(layer, f)

Resolved == fmtOut.status = "done" /\ fmtIn.fn = "resolveFormatSettings"

\* C21: for stored layers, each of the six fields of the result of
\* resolveFormatSettings is the source override's value if the override sets
\* it, else the channel default's value if it sets it, else the hard default.
C21_Precedence ==
    (/\ Resolved
     /\ StoredLayer(fmtIn.channelDefaults)
     /\ StoredLayer(fmtIn.sourceOverrides))
    => /\ DOMAIN fmtOut.settings = FORMAT_SETTING_KEYS
       /\ \A f \in FORMAT_SETTING_KEYS :
            fmtOut.settings[f] =
                IF Sets(fmtIn.sourceOverrides, f) THEN fmtIn.sourceOverrides[f]
                ELSE IF Sets(fmtIn.channelDefaults, f)
                     THEN fmtIn.channelDefaults[f]
                     ELSE DEFAULT_FORMAT_SETTINGS[f]

\* the channel says media disable, the source says media enable and a length
\* limit, the result has the source's media, the limit and the other defaults
C21_Witness ==
    /\ Resolved
    /\ fmtIn.channelDefaults = [media |-> "disable", author |-> "enable"]
    /\ fmtIn.sourceOverrides = [media |-> "enable", lengthLimit |-> 256]
    /\ fmtOut.settings.media = "enable"
    /\ fmtOut.settings.author = "enable"
    /\ fmtOut.settings.lengthLimit = 256
    /\ fmtOut.settings.notification = "normal"

\* C22: for every pair of partial layers, a key possibly present but unset,
\* the result of resolveFormatSettings has all six fields with an option
\* value, and resolving the result again as channel default without an
\* override returns the same result.
C22_TotalIdempotent ==
    Resolved
    => /\ DOMAIN fmtOut.settings = FORMAT_SETTING_KEYS
       /\ \A f \in FORMAT_SETTING_KEYS :
            fmtOut.settings[f] \in Range(FORMAT_LABELS(f))
       /\ resolveFormatSettings(fmtOut.settings, NoLayer) = fmtOut.settings

Formatted == fmtOut.status = "done" /\ fmtIn.fn = "formatFeedItem"

\* the length L of the body, the length F of the footer and the effective
\* limit E of the call
BodyLength == fmtIn.item.text

FooterLength == buildFooter(fmtIn.item, fmtIn.settings)

LimitOfCall == effectiveLimitOf(fmtIn.item, fmtIn.settings)

\* the caption is the first n characters of the body, the ellipsis, the footer
TruncatedTo(n) ==
    /\ fmtOut.caption.body = n
    /\ fmtOut.caption.ellipsis
    /\ fmtOut.caption.footer = FooterLength

\* the caption is the whole body and the footer
NotTruncated ==
    /\ fmtOut.caption.body = BodyLength
    /\ ~fmtOut.caption.ellipsis
    /\ fmtOut.caption.footer = FooterLength

\* C23 as stated, for the calls that put the body in the caption: with
\* E < L + F the caption is the first E-F-1 characters of the body, one
\* ellipsis and the footer; with L + F <= E the body is whole.
C23_Original ==
    (Formatted /\ fmtIn.settings.media # "only_media")
    => /\ LimitOfCall < BodyLength + FooterLength
            => TruncatedTo(LimitOfCall - FooterLength - 1)
       /\ BodyLength + FooterLength <= LimitOfCall => NotTruncated

\* C23 as amended: when the media setting is not only_media and the footer is
\* shorter than the limit, E < L + F gives the first E-F-1 characters of the
\* body, one ellipsis and the footer, and L + F <= E gives the whole body and
\* the footer; when the footer is not shorter than the limit and E < L + F,
\* no character of the body is kept and the caption is the ellipsis and the
\* footer.
C23_Truncation ==
    (Formatted /\ fmtIn.settings.media # "only_media")
    => /\ (/\ FooterLength < fmtOut.caption.limit
           /\ fmtOut.caption.limit < BodyLength + FooterLength)
            => TruncatedTo(fmtOut.caption.limit - FooterLength - 1)
       /\ BodyLength + FooterLength <= fmtOut.caption.limit => NotTruncated
       /\ (/\ FooterLength >= fmtOut.caption.limit
           /\ fmtOut.caption.limit < BodyLength + FooterLength)
            => TruncatedTo(0)

\* a photo with a text of 1025 characters and a bare-url footer of 42: the
\* caption keeps 981 characters of the text
C23_Witness ==
    /\ Formatted
    /\ fmtOut.type = "photo"
    /\ fmtIn.settings.media = "enable"
    /\ BodyLength = 1025
    /\ FooterLength = 42
    /\ fmtOut.caption.limit = 1024
    /\ TruncatedTo(981)

\* C30: when the caption body is built, the effective limit is
\* min(lengthLimit, platformLimit) if lengthLimit > 0 and platformLimit if
\* lengthLimit is 0, where platformLimit is 4096 when the payload is a text
\* message and 1024 when the payload carries media.
C30_EffectiveLimit ==
    (Formatted /\ fmtIn.settings.media # "only_media")
    => LET platformLimit == IF fmtOut.type = "text" THEN 4096 ELSE 1024
       IN fmtOut.caption.limit =
              IF fmtIn.settings.lengthLimit > 0
              THEN Min(fmtIn.settings.lengthLimit, platformLimit)
              ELSE platformLimit

\* an item without media under media enable and no length limit: a text
\* message whose body of 4097 characters is cut at the limit of 4096
C30_Witness ==
    /\ Formatted
    /\ fmtIn.settings.media = "enable"
    /\ fmtIn.item.mediaType = "none"
    /\ fmtIn.settings.lengthLimit = 0
    /\ fmtOut.type = "text"
    /\ fmtOut.caption.limit = 4096
    /\ BodyLength = 4097
    /\ fmtOut.caption.ellipsis

\* the lastseen record holds the newest item of the upstream feed: the source
\* was seeded and the upstream data is as it was then
SeededOnThisData ==
    /\ lastSeen # NoSeen
    /\ Len(upstream) > 0
    /\ lastSeen = upstream[1]

\* C24: the seed sends nothing to the channel, and a check of the seeded
\* source on the upstream data of the seed delivers no item.
C24_SeedMarksSeen ==
    [][/\ lastSeen' # lastSeen => delivered' = delivered
       /\ SeededOnThisData => delivered' = delivered]_vars

\* C25: in one check of one source at most 5 items are attempted, they are
\* the oldest unseen items of the fetched list, oldest first, and no unseen
\* item beyond them is in the ledger the check leaves.
C25_BurstCap ==
    /\ Len(run.attempts) <= 5
    /\ Len(run.posts) = Min(5, Len(run.newItems))
    /\ \A i \in 1..Len(run.attempts) :
         run.attempts[i].item = run.newItems[Len(run.newItems) + 1 - i]
    /\ \A k \in 1..(Len(run.newItems) - 5) :
         Link(run.newItems[k]) \notin Range(ledger)

\* six unseen items: the five oldest are sent and recorded, the newest is not
C25_Witness ==
    /\ run.newItems = Feed(6)
    /\ run.posts = <<1, 2, 3, 4, 5>>
    /\ Len(run.attempts) = 5
    /\ AttemptsWith({"ok"}) = 1..5
    /\ ledger = <<1, 2, 3, 4, 5>>

\* the items the source fetches and passes through its media filter
Fetched ==
    Range(filterItems(fetchForSource(StoredSource.type, upstream),
                      StoredSource.mediaFilter))

DeliveredItems == {delivered[i].item : i \in 1..Len(delivered)}

\* C26: with the upstream list unchanged, the channel enabled, every due
\* check running and every send succeeding, a state is reached in which every
\* fetched item has been delivered and the next check has no candidate.
C26_EventuallyQuiet ==
    <>(Fetched \subseteq DeliveredItems /\ Candidates = {})

\* C27: media above the upload ceiling of 50MB is never uploaded; when it is
\* downloaded the download throws the size error, which checkSource catches
\* and answers with the fallback message.
C27_OversizeToFallback ==
    (sendOut.status # "pending" /\ sendIn.dlSize > 50)
    => /\ sendOut.path # "upload"
       /\ ~sendOut.downloaded
       /\ (sendOut.path = "download" /\ sendIn.dl = "ok")
            => /\ sendOut.status = "throw"
               /\ sendOut.error = "too_large"
               /\ afterMainSend(sendOut) = "fallback"

\* a video of 60MB on a host whose URL is not passed on: the download throws
\* the size error and the fallback is next
C27_Witness ==
    /\ sendIn.type = "video"
    /\ sendIn.hasUrl
    /\ ~sendIn.friendly
    /\ sendIn.dl = "ok"
    /\ sendIn.dlSize = 60
    /\ sendOut.status = "throw"
    /\ sendOut.path = "download"
    /\ sendOut.error = "too_large"
    /\ afterMainSend(sendOut) = "fallback"

\* C28: in a source check a fetched item is a candidate iff its id is not in
\* the ledger the check read, and the value recorded for a sent item is its
\* id.
C28_DedupOnId ==
    /\ \A x \in Range(filterItems(run.fetched, StoredSource.mediaFilter)) :
         x \in Range(run.newItems) <=> x \notin Range(run.sentLinks)
    /\ \A i \in 1..Len(RunPosted) : run.sent[i] = RunPosted[i].item

\* C29: the stored ledger never contains the same identifier twice.
C29_LedgerIsSet ==
    \A i, j \in 1..Len(ledger) : i # j => ledger[i] # ledger[j]

\* the instances other than the one matched, in list order
OtherInstances ==
    SelectSeq(RSS_BRIDGE_INSTANCES, LAMBDA i : i # fetchIn.match)

\* the instances other than the one matched, up to the first with an item
UntilItems(insts) ==
    IF \E k \in 1..Len(insts) : fetchIn.ans[insts[k]] = "items"
    THEN SubSeq(insts, 1,
                CHOOSE k \in 1..Len(insts) :
                    /\ fetchIn.ans[insts[k]] = "items"
                    /\ \A j \in 1..(k - 1) : fetchIn.ans[insts[j]] # "items")
    ELSE insts

RssUrlFetched ==
    /\ fetchOut.status = "returned"
    /\ fetchIn.fn = "fetchForSource"
    /\ fetchIn.type = "rss_url"

\* C31: when the URL of an rss_url source is on a known instance and its
\* fetch returned no item, the other instances are fetched in list order up to
\* the first that returns an item, whose result is returned, and the instance
\* of the URL is not fetched again; a URL on no known instance is fetched
\* once and nothing else is.
C31_MirrorFailover ==
    RssUrlFetched
    => /\ (fetchIn.origin # 0 /\ fetchIn.ans[DirectUrl] # "items")
            => /\ Tried = <<DirectUrl>> \o UntilItems(OtherInstances)
               /\ fetchIn.origin \notin Range(Tried)
               /\ fetchIn.ans[Tried[Len(Tried)]] = "items"
                    => fetchOut.items
                           = TierItems(Tried[Len(Tried)], fetchIn.n)
       /\ fetchIn.origin = 0 => Tried = <<DirectUrl>>

\* the name of the last call, in lower case
LoweredName ==
    IF uidCall.name.form = "mixed"
    THEN [uidCall.name EXCEPT !.form = "lower"] ELSE uidCall.name

\* C32: a resolution of a name whose lowercased name has a live cache entry
\* returns the id of the entry without a network request, whatever the letter
\* case the name is given in; an entry is stored under the lowercased name
\* only, by a resolution that returns its id, and a resolution that returns
\* no id stores nothing.
C32_CachedByLowercase ==
    [][(uidCall' # uidCall)
       => /\ (/\ uidCall'.name.form # "digits"
              /\ uidCache[LoweredName'] # NoUid)
                => /\ uidCall'.result = uidCache[LoweredName']
                   /\ ~uidCall'.requested
                   /\ uidCache' = uidCache
          /\ uidCall'.result = NoUid => uidCache' = uidCache
          /\ \A k \in Names :
               uidCache'[k] # uidCache[k]
                 => /\ k = LoweredName'
                    /\ uidCache'[k] = uidCall'.result]_vars

\* the user has a live entry and is asked for in mixed case: the id of the
\* entry is returned and no request is made
C32_Witness ==
    /\ uidCall.name = [user |-> 1, form |-> "mixed"]
    /\ uidCall.cacheBefore[[user |-> 1, form |-> "lower"]] = 101
    /\ uidCall.result = 101
    /\ ~uidCall.requested
    /\ uidCache[[user |-> 1, form |-> "lower"]] = 101

\* the messages a step posts to the channel
PostedByStep == SubSeq(delivered', Len(delivered) + 1, Len(delivered'))

\* C33: a scheduler check posts no item that was posted to the channel
\* before, by fetchAndSendLatest in particular.
C33_InitialNotResent ==
    [][(run' # run)
       => \A k \in 1..Len(PostedByStep) :
            PostedByStep[k].item \notin DeliveredItems]_vars

\* C34: the stored check interval of a channel is never below 5 minutes.
C34_IntervalFloor ==
    kvConfig # NoConfig => kvConfig.checkIntervalMinutes >= 5

\* C35: the write of a scheduler pass keeps every field an admin handler
\* stored since the pass read the config: it changes nothing of the stored
\* config but lastCheckTimestamp.
C35_AdminChangeKept ==
    [][(cron.pc = "save" /\ cron'.pc = "sources" /\ kvConfig # NoConfig)
          => [kvConfig' EXCEPT !.lastCheckTimestamp = 0]
               = [kvConfig EXCEPT !.lastCheckTimestamp = 0]]_vars


BtchCalled == fetchIn.fn = "btchFetch" /\ fetchOut.status # "pending"

\* the first server from i on whose answer is not a 5xx response, a network
\* error or a timeout; one past the last server when there is none
RECURSIVE FirstStop(_, _)
FirstStop(ans, i) ==
    IF i > Cardinality(BTCH_SERVERS) THEN i
    ELSE IF ans[i] \in {"5xx", "network", "timeout"} THEN FirstStop(ans, i + 1)
    ELSE i

\* C36: btchFetch asks the servers in list order up to the first whose answer
\* is not a 5xx response, a network error or a timeout; data of that server
\* is returned, a 4xx response or an error payload of it is thrown, and when
\* every server was asked in vain the error of the last one is thrown.
C36_ServerFailover ==
    (BtchCalled /\ \A i \in BTCH_SERVERS : fetchIn.ans[i] # "no_json")
    => LET n == Cardinality(BTCH_SERVERS)
           k == FirstStop(fetchIn.ans, 1)
       IN /\ fetchOut.tried = [i \in 1..(IF k > n THEN n ELSE k) |-> i]
          /\ IF k > n
             THEN /\ fetchOut.status = "threw"
                  /\ fetchOut.errors = <<[at |-> n, kind |-> fetchIn.ans[n]]>>
             ELSE IF fetchIn.ans[k] = "data"
             THEN /\ fetchOut.status = "returned"
                  /\ fetchOut.items = <<k>>
             ELSE /\ fetchOut.status = "threw"
                  /\ fetchOut.errors = <<[at |-> k, kind |-> fetchIn.ans[k]]>>


\* C37: an item of the batch whose main send and fallback send failed
\* without a rate limit is followed by the attempt of the next item, a batch
\* without a rate limit is attempted to its end, and the link of every item
\* of such a batch that was delivered, before or after the failed one, is in
\* the ledger.
C37_FailureDoesNotEndBatch ==
    run.n # 0
    => /\ \A i \in AttemptsWith({"fail"}) :
              i < Len(run.posts) => Len(run.attempts) > i
       /\ AttemptsWith(Delivered429) = {}
              => Len(run.attempts) = Len(run.posts)
       /\ AttemptsWith({"fail"}) # {}
              => \A i \in AttemptsWith({"ok", "fb_ok"}) :
                     Link(run.attempts[i].item) \in Range(ledger)

\* a batch with an item delivered, then an item that failed twice, then an
\* item delivered, both delivered items in the ledger
C37_Witness ==
    \E i \in AttemptsWith({"fail"}) :
        /\ i > 1
        /\ i < Len(run.attempts)
        /\ run.attempts[i - 1].outcome \in {"ok", "fb_ok"}
        /\ run.attempts[i + 1].outcome \in {"ok", "fb_ok"}
        /\ Link(run.attempts[i - 1].item) \in Range(ledger)
        /\ Link(run.attempts[i + 1].item) \in Range(ledger)


\* the length of the caption of the last call
CaptionLength ==
    fmtOut.caption.body + (IF fmtOut.caption.ellipsis THEN 1 ELSE 0)
    + fmtOut.caption.footer

\* the effective caption limit of the payload of the last call
PayloadLimit ==
    LET platformLimit == IF fmtOut.type = "text" THEN 4096 ELSE 1024
    IN IF fmtIn.settings.lengthLimit > 0
       THEN Min(fmtIn.settings.lengthLimit, platformLimit)
       ELSE platformLimit

\* C38: the caption formatFeedItem returns, the body with the footer or the
\* footer alone under only_media, is never longer than the effective caption
\* limit of its payload.
C38_CaptionWithinLimit ==
    Formatted => CaptionLength <= PayloadLimit


\* C39: the channel index lists no channel id twice, and every id it lists
\* has a stored config.
C39_IndexConsistent ==
    /\ \A i, j \in 1..Len(kvChannels) :
           i # j => kvChannels[i] # kvChannels[j]
    /\ \A i \in 1..Len(kvChannels) : kvConfigs[kvChannels[i]] # NoConfig

====
